---- MODULE Spec2Model ----
(***************************************************************************)
(* OrchestraGuard decision pipeline: ReasoningEngine.process_action with   *)
(* its policy cache, oracle retry loop, reply parsing, synchronous BLOCK   *)
(* notification, audit write and statistics (backend/core/engine.py), the  *)
(* Decision schema (backend/schemas/models.py) and the NotificationService *)
(* (backend/services/notify.py).                                           *)
(*                                                                         *)
(* Strings are modelled by what the code does with them: a message is a    *)
(* record of its text kind, its length and the fault it embeds; an oracle  *)
(* reply is a sequence of lexical tokens over which the extraction         *)
(* strategies scan.  Every step of a pipeline runs from one await point to *)
(* the next.                                                               *)
(***************************************************************************)
EXTENDS Integers, Sequences, FiniteSets, TLC

\* ------------------------------------------------------------------------
\* Bounds of the model
\* ------------------------------------------------------------------------
MaxActions == 2          \* process_action calls per behaviour
MaxAlerts == 1           \* direct send_immediate_alert calls per behaviour
MaxTicks == 1            \* clock advances per behaviour
MaxStoreChanges == 1     \* changes of the store's records per behaviour
TickSeconds == 31        \* the short clock advance, in seconds
TicksPerSecond == 2      \* resolution of the clock: units per second
ShortMsgLen == 40        \* length of a short exception message
LongMsgLen == 940        \* length of a long exception message
ShortRationaleLen == 5   \* oracle rationale shorter than the schema minimum
LongRationaleLen == 1500 \* oracle rationale longer than the schema maximum
OkRationaleLen == 14     \* oracle rationale inside the schema limits
ValidationErrLen == 250  \* length of str(ValidationError) for one field
JsonErrLen == 41         \* length of str(JSONDecodeError)
AttrErrLen == 37         \* length of str(AttributeError) / str(TypeError)

\* ------------------------------------------------------------------------
\* Program constants
\* ------------------------------------------------------------------------
max_retries == 3             \* _call_llm_with_retry(max_retries=3)
base_delay == 1              \* _call_llm_with_retry(base_delay=1.0)
_cache_ttl == 60             \* ReasoningEngine._cache_ttl
RationaleMinLen == 10        \* Decision.rationale min_length
RationaleMaxLen == 1000      \* Decision.rationale max_length
RationaleCut == 1000         \* decision_data["rationale"][:1000]
EmergencyPrefixLen == 35     \* "System error in policy evaluation: "
RetryPrefixLen == 34         \* "LLM call failed after 3 attempts: "
SystemErrorPrefixLen == 14   \* "System error: "
JsonErrorPrefixLen == 20     \* "JSON parsing error: "
ValidationPrefixLen == 30    \* "LLM output validation failed: "
NoPoliciesLen == 40          \* "No active policies defined for this tool"
EmptyResponseLen == 27       \* "LLM returned empty response"
NoJsonLen == 29              \* "No JSON found in LLM response"
InvalidFormatLen == 32       \* "Invalid decision format from LLM"
sync_max_retries == 3        \* _send_single_webhook_sync max_retries
DaySeconds == 86400          \* timedelta.seconds wraps at one day

\* ------------------------------------------------------------------------
\* Enumerations (schemas/models.py, services/notify.py)
\* ------------------------------------------------------------------------
DecisionEnum == {"ALLOW", "BLOCK", "FLAG"}

SeverityEnum == {"HIGH", "MEDIUM", "LOW"}

\* NotificationType: member name -> value
NotificationType ==
  [BLOCK_ALERT |-> "block_alert", FLAG_ALERT |-> "flag_alert",
   SYSTEM_ALERT |-> "system_alert", POLICY_UPDATE |-> "policy_update",
   SECURITY_BREACH |-> "security_breach"]

NotificationTypeNames == DOMAIN NotificationType

\* NotificationType(value): lookup of a member by VALUE; "<ValueError>" when
\* no member has that value.
NotificationTypeByValue(v) ==
  IF \E n \in NotificationTypeNames : NotificationType[n] = v
  THEN CHOOSE n \in NotificationTypeNames : NotificationType[n] = v
  ELSE "<ValueError>"

\* The "type" the engine puts into the payload of a BLOCK notification.
EnginePayloadType == "BLOCK_ALERT"

\* payload.get("type", "block_alert") of a payload without "type".
DefaultPayloadType == "block_alert"

\* Sentinels for JSON values that are not strings.
Absent == "<absent>"
Null == "<null>"
NonStr == "<nonstr>"
NoSeverity == "None"

\* str.upper() on the strings the model draws from.
Upper(s) ==
  CASE s = "allow" -> "ALLOW"
    [] s = "block" -> "BLOCK"
    [] s = "Flag" -> "FLAG"
    [] s = "high" -> "HIGH"
    [] s = "medium" -> "MEDIUM"
    [] s = "null" -> "NULL"
    [] s = "dp-001" -> "DP-001"
    [] s = "ac-003" -> "AC-003"
    [] s = "xx-999" -> "XX-999"
    [] OTHER -> s

\* str.lower() on rule ids.
Lower(s) ==
  CASE s = "DP-001" -> "dp-001"
    [] s = "AC-003" -> "ac-003"
    [] s = "SC-002" -> "sc-002"
    [] OTHER -> s

Min(a, b) == IF a < b THEN a ELSE b

\* ------------------------------------------------------------------------
\* Exceptions and messages
\* ------------------------------------------------------------------------
\* An exception: its Python type, the fault it reports and len(str(e)).
Exc(type, fault, len) == [type |-> type, fault |-> fault, len |-> len]

\* ValidationError is a subclass of ValueError (pydantic v2).
IsValueError(e) == e.type \in {"ValueError", "ValidationError", "JSONDecodeError"}

IsKeyError(e) == e.type = "KeyError"

\* A rationale string: which text it is, its length, the fault it embeds and
\* the rule ids / descriptions that occur in it.
Str(text, len, fault, mentions) ==
  [text |-> text, len |-> len, fault |-> fault, mentions |-> mentions]

\* ------------------------------------------------------------------------
\* Decision schema (schemas/models.py)
\* ------------------------------------------------------------------------
\* Field(min_length=10, max_length=1000) on Decision.rationale.
RationaleError(rationale) ==
  rationale.len < RationaleMinLen \/ rationale.len > RationaleMaxLen

\* Decision.validate_severity_decision.
SeverityErrorNever(decision, v) == FALSE

SeverityError(decision, v) == decision = "BLOCK" /\ v = NoSeverity

\* Decision(...): the validated model, or the ValidationError it raises.
Decision(action, decision, rationale, severity, applied_rules) ==
  LET n == (IF RationaleError(rationale) THEN 1 ELSE 0)
           + (IF SeverityError(decision, severity) THEN 1 ELSE 0)
  IN [ok |-> n = 0,
      d |-> [action_id |-> action.action_id,
             target_tool |-> action.target_tool,
             decision |-> decision,
             rationale |-> rationale,
             severity |-> severity,
             applied_rules |-> applied_rules],
      e |-> Exc("ValidationError", "validation", n * ValidationErrLen)]

NoDecision ==
  [action_id |-> 0, target_tool |-> "none", decision |-> "none",
   rationale |-> Str("none", 0, "none", {}), severity |-> NoSeverity,
   applied_rules |-> <<>>]

NoExc == Exc("none", "none", 0)

\* ------------------------------------------------------------------------
\* Oracle replies as token sequences
\* ------------------------------------------------------------------------
\* LB "{"   RB "}"   FJ the json code fence   F the plain code fence
\*   OUT "Output:"   DECP "Decision:"
\* TXT prose   GARB text that is not JSON   NUM a JSON number
\* META the text  , "meta":   BODY the members of the decision object
Tok(t) == [t |-> t]

Body(d) == [t |-> "BODY", d |-> d]

RatAbsent == [k |-> "absent", len |-> 0, mentions |-> {}]

RatNonStr == [k |-> "nonstr", len |-> 0, mentions |-> {}]

Rat(len, mentions) == [k |-> "str", len |-> len, mentions |-> mentions]

RulesAbsent == [k |-> "absent", ids |-> <<>>]

RulesNonList == [k |-> "nonlist", ids |-> <<>>]

Rules(ids) == [k |-> "list", ids |-> ids]

Dict(decision, rationale, severity, applied_rules) ==
  [k |-> "dict", decision |-> decision, rationale |-> rationale,
   severity |-> severity, applied_rules |-> applied_rules]

EmptyDict == Dict(Absent, RatAbsent, Absent, RulesAbsent)

Scalar == [k |-> "scalar", decision |-> Absent, rationale |-> RatAbsent,
           severity |-> Absent, applied_rules |-> RulesAbsent]

Obj(d) == <<Tok("LB"), Body(d), Tok("RB")>>

\* json.loads on a token sequence.
JsonLoads(c) ==
  IF Len(c) = 3 /\ c[1].t = "LB" /\ c[2].t = "BODY" /\ c[3].t = "RB"
    THEN [ok |-> TRUE, v |-> c[2].d]
  ELSE IF Len(c) = 2 /\ c[1].t = "LB" /\ c[2].t = "RB"
    THEN [ok |-> TRUE, v |-> EmptyDict]
  ELSE IF Len(c) = 6 /\ c[1].t = "LB" /\ c[2].t = "BODY" /\ c[3].t = "META"
          /\ c[4].t = "LB" /\ c[5].t = "RB" /\ c[6].t = "RB"
    THEN [ok |-> TRUE, v |-> c[2].d]
  ELSE IF Len(c) = 1 /\ c[1].t = "NUM"
    THEN [ok |-> TRUE, v |-> Scalar]
  ELSE [ok |-> FALSE, v |-> EmptyDict]

\* str.find(marker, from): index of the first token at or after from in
\* which the marker text occurs, 0 when there is none (the plain fence also occurs
\* inside the json fence).
MarkerIn(marker, tok) ==
  \/ marker = "[fence]json" /\ tok.t = "FJ"
  \/ marker = "[fence]" /\ tok.t \in {"F", "FJ"}
  \/ marker = "Output:" /\ tok.t = "OUT"
  \/ marker = "Decision:" /\ tok.t = "DECP"

Find(c, marker, from) ==
  LET hits == {i \in from..Len(c) : MarkerIn(marker, c[i])}
  IN IF hits = {} THEN 0 ELSE CHOOSE i \in hits : \A j \in hits : i <= j

RECURSIVE MatchClose(_, _, _)
\* The index at which the brace stack of _extract_complete_json empties.
MatchClose(c, i, depth) ==
  IF i > Len(c) THEN 0
  ELSE IF c[i].t = "LB" THEN MatchClose(c, i + 1, depth + 1)
  ELSE IF c[i].t = "RB" THEN
         IF depth = 0 THEN MatchClose(c, i + 1, 0)
         ELSE IF depth = 1 THEN i
         ELSE MatchClose(c, i + 1, depth - 1)
  ELSE MatchClose(c, i + 1, depth)

\* Optional[str]: None and "" are both the empty sequence (both falsy).
_extract_complete_json(content) ==
  IF Len(content) > 0 /\ content[1].t = "LB"
  THEN LET j == MatchClose(content, 1, 0)
       IN IF j = 0 THEN <<>> ELSE SubSeq(content, 1, j)
  ELSE <<>>

_extract_json_between_markers(content, start_marker, end_marker) ==
  LET s == Find(content, start_marker, 1)
      e == IF s = 0 THEN 0 ELSE Find(content, end_marker, s + 1)
      \* "[fence]" found inside "[fence]json" leaves the text "json" in front
      rest == IF start_marker = "[fence]" /\ content[s].t = "FJ"
              THEN <<Tok("TXT")>> ELSE <<>>
  IN IF s = 0 \/ e = 0 THEN <<>>
     ELSE rest \o SubSeq(content, s + 1, e - 1)

_extract_json_after_phrase(content, phrase) ==
  LET p == Find(content, phrase, 1)
  IN IF p = 0 THEN <<>>
     ELSE _extract_complete_json(SubSeq(content, p + 1, Len(content)))

IsBrace(tok) == tok.t \in {"LB", "RB"}

\* Index of the first brace after position i, 0 when there is none.
NextBrace(c, i) ==
  LET bs == {j \in (i + 1)..Len(c) : IsBrace(c[j])}
  IN IF bs = {} THEN 0 ELSE CHOOSE j \in bs : \A k \in bs : j <= k

\* End of the match of  \{[^{}]*\{[^{}]*\}[^{}]*\}|\{[^{}]*\}  at i, or 0.
RegexMatchEnd(c, i) ==
  IF c[i].t # "LB" THEN 0
  ELSE LET j == NextBrace(c, i)
           k == IF j = 0 THEN 0 ELSE NextBrace(c, j)
           m == IF k = 0 THEN 0 ELSE NextBrace(c, k)
       IN IF j # 0 /\ c[j].t = "LB" /\ k # 0 /\ c[k].t = "RB"
             /\ m # 0 /\ c[m].t = "RB" THEN m
          ELSE IF j # 0 /\ c[j].t = "RB" THEN j
          ELSE 0

RECURSIVE FirstLoadableMatch(_, _)
\* re.findall, then the first match json.loads accepts.
FirstLoadableMatch(c, i) ==
  IF i > Len(c) THEN <<>>
  ELSE LET e == RegexMatchEnd(c, i)
       IN IF e = 0 THEN FirstLoadableMatch(c, i + 1)
          ELSE IF JsonLoads(SubSeq(c, i, e)).ok THEN SubSeq(c, i, e)
          ELSE FirstLoadableMatch(c, e + 1)

_find_json_like_structure(content) == FirstLoadableMatch(content, 1)

\* The strategies in their order; the first non-empty result is returned.
Strategy(n, content) ==
  CASE n = 1 -> _extract_complete_json(content)
    [] n = 2 -> _extract_json_between_markers(content, "[fence]json", "[fence]")
    [] n = 3 -> _extract_json_between_markers(content, "[fence]", "[fence]")
    [] n = 4 -> _extract_json_after_phrase(content, "Output:")
    [] n = 5 -> _extract_json_after_phrase(content, "Decision:")
    [] n = 6 -> _find_json_like_structure(content)

NumStrategies == 6

_extract_json_from_response(content) ==
  LET hits == {n \in 1..NumStrategies : Strategy(n, content) # <<>>}
  IN IF hits = {} THEN <<>>
     ELSE Strategy(CHOOSE n \in hits : \A m \in hits : n <= m, content)

\* ------------------------------------------------------------------------
\* Reply validation, rule reconciliation and parsing (core/engine.py)
\* ------------------------------------------------------------------------
\* _validate_decision_format: "true", "false", or "raise" for the exception
\* types its except clause does not catch (TypeError, AttributeError).
_validate_decision_format(data) ==
  IF data.k = "scalar" THEN "raise"
  ELSE IF data.decision = Absent \/ data.rationale.k = "absent" THEN "false"
  ELSE IF data.decision \in {NonStr, Null} THEN "raise"
  ELSE IF Upper(data.decision) \notin DecisionEnum THEN "false"
  ELSE IF data.severity \notin {Absent, Null} /\ data.severity = NonStr
    THEN "raise"
  ELSE IF data.severity \notin {Absent, Null}
          /\ Upper(data.severity) \notin SeverityEnum THEN "false"
  ELSE IF data.applied_rules.k = "nonlist" THEN "false"
  ELSE "true"

RuleIds(relevant_rules) ==
  [i \in 1..Len(relevant_rules) |-> relevant_rules[i].rule.rule_id]

\* A membership test that finds nothing.
InSeqNever(x, sq) == FALSE

InSeq(x, sq) == \E i \in 1..Len(sq) : sq[i] = x

\* list.remove(x): the list without the first occurrence of x.
RemoveFirst(sq, x) ==
  LET i == CHOOSE k \in 1..Len(sq) :
             sq[k] = x /\ \A j \in 1..(k - 1) : sq[j] # x
  IN SubSeq(sq, 1, i - 1) \o SubSeq(sq, i + 1, Len(sq))

MapUpper(ids) == [i \in 1..Len(ids) |-> Upper(ids[i])]

\* rule_id.lower() in rationale or description.lower() in rationale
MentionedIn(entry, rationale) ==
  \/ Lower(entry.rule.rule_id) \in rationale.mentions
  \/ Lower(entry.rule.description) \in rationale.mentions

\* _determine_applied_rules without the check of the supplied ids against
\* the rules of the action.
_determine_applied_rulesUnchecked(decision_data, relevant_rules) ==
  IF decision_data.applied_rules.k = "list"
     /\ decision_data.applied_rules.ids # <<>>
  THEN [raised |-> FALSE, rules |-> MapUpper(decision_data.applied_rules.ids)]
  ELSE [raised |-> FALSE, rules |-> RuleIds(relevant_rules)]

\* _determine_applied_rules were the supplied ids compared as they are.
_determine_applied_rulesCaseSensitive(decision_data, relevant_rules) ==
  LET relevant_rule_ids == RuleIds(relevant_rules)
      provided_rules == decision_data.applied_rules.ids
      valid_rules == SelectSeq(provided_rules,
                               LAMBDA r : InSeq(r, relevant_rule_ids))
      decision == Upper(decision_data.decision)
      mentioned == SelectSeq(relevant_rules,
                     LAMBDA en : MentionedIn(en, decision_data.rationale))
  IN IF decision_data.applied_rules.k = "list" /\ valid_rules # <<>>
       THEN [raised |-> FALSE, rules |-> valid_rules]
     ELSE IF decision = "ALLOW"
       THEN [raised |-> FALSE, rules |-> relevant_rule_ids]
     ELSE IF decision \in {"BLOCK", "FLAG"}
       THEN IF decision_data.rationale.k # "str"
              THEN [raised |-> TRUE, rules |-> <<>>]
            ELSE IF mentioned # <<>>
              THEN [raised |-> FALSE, rules |-> RuleIds(mentioned)]
            ELSE [raised |-> FALSE, rules |-> relevant_rule_ids]
     ELSE [raised |-> FALSE, rules |-> <<>>]

\* _determine_applied_rules were an ALLOW without valid ids left without rules.
_determine_applied_rulesAllowEmpty(decision_data, relevant_rules) ==
  LET relevant_rule_ids == RuleIds(relevant_rules)
      provided_rules == MapUpper(decision_data.applied_rules.ids)
      valid_rules == SelectSeq(provided_rules,
                               LAMBDA r : InSeq(r, relevant_rule_ids))
      decision == Upper(decision_data.decision)
      mentioned == SelectSeq(relevant_rules,
                     LAMBDA en : MentionedIn(en, decision_data.rationale))
  IN IF decision_data.applied_rules.k = "list" /\ valid_rules # <<>>
       THEN [raised |-> FALSE, rules |-> valid_rules]
     ELSE IF decision = "ALLOW"
       THEN [raised |-> FALSE, rules |-> <<>>]
     ELSE IF decision \in {"BLOCK", "FLAG"}
       THEN IF decision_data.rationale.k # "str"
              THEN [raised |-> TRUE, rules |-> <<>>]
            ELSE IF mentioned # <<>>
              THEN [raised |-> FALSE, rules |-> RuleIds(mentioned)]
            ELSE [raised |-> FALSE, rules |-> relevant_rule_ids]
     ELSE [raised |-> FALSE, rules |-> <<>>]

\* _determine_applied_rules without the fallback to all rules of the action.
_determine_applied_rulesNoFallback(decision_data, relevant_rules) ==
  LET relevant_rule_ids == RuleIds(relevant_rules)
      provided_rules == MapUpper(decision_data.applied_rules.ids)
      valid_rules == SelectSeq(provided_rules,
                               LAMBDA r : InSeq(r, relevant_rule_ids))
      decision == Upper(decision_data.decision)
      mentioned == SelectSeq(relevant_rules,
                     LAMBDA en : MentionedIn(en, decision_data.rationale))
  IN IF decision_data.applied_rules.k = "list" /\ valid_rules # <<>>
       THEN [raised |-> FALSE, rules |-> valid_rules]
     ELSE IF decision = "ALLOW"
       THEN [raised |-> FALSE, rules |-> relevant_rule_ids]
     ELSE IF decision \in {"BLOCK", "FLAG"}
       THEN IF decision_data.rationale.k # "str"
              THEN [raised |-> TRUE, rules |-> <<>>]
            ELSE IF mentioned # <<>>
              THEN [raised |-> FALSE, rules |-> RuleIds(mentioned)]
            ELSE [raised |-> FALSE, rules |-> <<>>]
     ELSE [raised |-> FALSE, rules |-> <<>>]

\* _determine_applied_rules: the list, or raised = TRUE when .lower() is
\* applied to a rationale that is not a string.
_determine_applied_rules(decision_data, relevant_rules) ==
  LET relevant_rule_ids == RuleIds(relevant_rules)
      provided_rules == MapUpper(decision_data.applied_rules.ids)
      valid_rules == SelectSeq(provided_rules,
                               LAMBDA r : InSeq(r, relevant_rule_ids))
      decision == Upper(decision_data.decision)
      mentioned == SelectSeq(relevant_rules,
                     LAMBDA en : MentionedIn(en, decision_data.rationale))
  IN IF decision_data.applied_rules.k = "list" /\ valid_rules # <<>>
       THEN [raised |-> FALSE, rules |-> valid_rules]
     ELSE IF decision = "ALLOW"
       THEN [raised |-> FALSE, rules |-> relevant_rule_ids]
     ELSE IF decision \in {"BLOCK", "FLAG"}
       THEN IF decision_data.rationale.k # "str"
              THEN [raised |-> TRUE, rules |-> <<>>]
            ELSE IF mentioned # <<>>
              THEN [raised |-> FALSE, rules |-> RuleIds(mentioned)]
            ELSE [raised |-> FALSE, rules |-> relevant_rule_ids]
     ELSE [raised |-> FALSE, rules |-> <<>>]

\* The tag _create_error_decision puts into applied_rules.
ErrorTag(error_message) == "SYSTEM-ERROR"

\* The decision _create_error_decision builds for a fault.
ErrorDecisionValue == "BLOCK"

\* _create_error_decision(action, error_message)
_create_error_decision(action, error_message) ==
  Decision(action, ErrorDecisionValue,
           Str("system_error", SystemErrorPrefixLen + error_message.len,
               error_message.fault, {}),
           "HIGH", <<ErrorTag(error_message)>>)

Raise(e) == [kind |-> "raise", e |-> e, d |-> NoDecision, safe |-> FALSE]

Return(d, safe) == [kind |-> "return", e |-> NoExc, d |-> d, safe |-> safe]

\* Severity parsing of _parse_llm_response: a falsy or absent value is None.
ParseSeverity(data) ==
  IF data.severity \in {Absent, Null, ""} THEN NoSeverity
  ELSE Upper(data.severity)

\* The try body of _parse_llm_response, after validation: rule
\* reconciliation, severity parsing and the construction of the Decision.
ParseBuilt(data, applied, built) ==
  IF applied.raised \/ data.rationale.k # "str"
    THEN Raise(Exc("TypeError", "type_error", AttrErrLen))
  ELSE IF ~built.ok THEN Raise(built.e)
  ELSE Return(built.d, FALSE)

ParseReconciled(data, applied, action) ==
  ParseBuilt(data, applied,
             Decision(action, Upper(data.decision),
                      Str("oracle", Min(data.rationale.len, RationaleCut),
                          "none", data.rationale.mentions),
                      ParseSeverity(data), applied.rules))

ParseValidated(data, fmt, action, relevant_rules) ==
  IF fmt = "raise"
    THEN Raise(Exc("TypeError", "type_error", AttrErrLen))
  ELSE IF fmt = "false"
    THEN Raise(Exc("ValueError", "invalid_format", InvalidFormatLen))
  ELSE ParseReconciled(data, _determine_applied_rules(data, relevant_rules),
                       action)

\* The try body of _parse_llm_response, after json.loads.
ParseLoaded(loaded, action, relevant_rules) ==
  IF ~loaded.ok
    THEN Raise(Exc("JSONDecodeError", "json_decode", JsonErrLen))
  ELSE ParseValidated(loaded.v, _validate_decision_format(loaded.v), action,
                      relevant_rules)

\* The try body of _parse_llm_response, after extraction.
ParseExtracted(json_content, action, relevant_rules) ==
  IF json_content = <<>>
    THEN Raise(Exc("ValueError", "no_json", NoJsonLen))
  ELSE ParseLoaded(JsonLoads(json_content), action, relevant_rules)

\* The try body of _parse_llm_response.
ParseBody(content, action, relevant_rules) ==
  ParseExtracted(_extract_json_from_response(content), action, relevant_rules)

\* _create_error_decision succeeded, or its ValidationError escapes.
Handled(r) == IF r.ok THEN Return(r.d, TRUE) ELSE Raise(r.e)

\* An except clause of _parse_llm_response.
Handle(action, prefix_len, e) ==
  Handled(_create_error_decision(action,
            [len |-> prefix_len + e.len, fault |-> e.fault]))

\* The except clauses of _parse_llm_response, in their order.
ParseExcept(r, action) ==
  IF r.kind = "return" THEN r
  ELSE IF r.e.type = "JSONDecodeError"
    THEN Handle(action, JsonErrorPrefixLen, r.e)
  ELSE IF IsKeyError(r.e) \/ IsValueError(r.e)
    THEN Handle(action, ValidationPrefixLen, r.e)
  ELSE r

_parse_llm_response(content, action, relevant_rules) ==
  ParseExcept(ParseBody(content, action, relevant_rules), action)

\* The emergency decision of process_action's except clause.
EmergencyDecision(action, e) ==
  Decision(action, "BLOCK",
           Str("emergency", EmergencyPrefixLen + e.len, e.fault, {}),
           "HIGH", <<"SYSTEM-ERROR">>)

\* Exponential backoff of _call_llm_with_retry.
BackoffDelayFlat(attempt) == base_delay

RECURSIVE Pow2(_)
Pow2(n) == IF n = 0 THEN 1 ELSE 2 * Pow2(n - 1)

BackoffDelay(attempt) == base_delay * Pow2(attempt)

\* ------------------------------------------------------------------------
\* Policy store records, rules and patterns
\* ------------------------------------------------------------------------
Tools == {"Slack_API_PostMessage", "DB_Query[raw]"}

\* re.compile(pattern).match(tool) for the patterns of the model.
RegexMatches(pattern, tool) ==
  \/ pattern = ".*"
  \/ pattern = "Slack_API_.*" /\ tool = "Slack_API_PostMessage"
  \/ pattern = "DB_.*" /\ tool = "DB_Query[raw]"

\* The match of _get_relevant_policies were a pattern that does not
\* compile passed over.
PatternMatchesCompiledOnly(pattern, tool) ==
  pattern # "[raw" /\ RegexMatches(pattern, tool)

\* The match of _get_relevant_policies for one cached pattern: the regular
\* expression match, or for the pattern re.compile rejects ("[raw", an
\* unterminated character set) the test  regex_pattern in target_tool.
PatternMatches(pattern, tool) ==
  IF pattern = "[raw"
  THEN tool = "DB_Query[raw]"
  ELSE RegexMatches(pattern, tool)

\* Field(pattern=r'^[A-Z]{2}-\d{3}$') on PolicyRule.rule_id.
RuleIdWellFormed(rule_id) == rule_id \in {"DP-001", "SC-002", "AC-003"}

\* PolicyRule(...) accepts the rule data.
PolicyRuleValid(r) ==
  /\ RuleIdWellFormed(r.rule_id)
  /\ r.description_len >= 10 /\ r.description_len <= 500
  /\ r.severity \in SeverityEnum
  /\ r.action_on_violation \in {"BLOCK", "FLAG"}

RuleData(rule_id, description, regex, severity, action) ==
  [rule_id |-> rule_id, description |-> description, description_len |-> 24,
   target_tool_regex |-> regex, severity |-> severity,
   action_on_violation |-> action]

PolicyA ==
  [id |-> 1, name |-> "slack-policy", is_active |-> TRUE, is_dict |-> TRUE,
   rules |-> RuleData("DP-001", "no public channel posts", "Slack_API_.*",
                      "HIGH", "BLOCK")]

PolicyC ==
  [id |-> 3, name |-> "audit-policy", is_active |-> TRUE, is_dict |-> TRUE,
   rules |-> RuleData("AC-003", "every tool call is audited", ".*",
                      "LOW", "FLAG")]

\* A record whose rule data PolicyRule rejects (the rule_id pattern).
PolicyB ==
  [id |-> 2, name |-> "draft-policy", is_active |-> TRUE, is_dict |-> TRUE,
   rules |-> RuleData("sc-2", "secrets stay in the vault", "Vault_.*",
                      "HIGH", "BLOCK")]

\* A record whose pattern is not a regular expression.
PolicyD ==
  [id |-> 4, name |-> "raw-query-policy", is_active |-> TRUE, is_dict |-> TRUE,
   rules |-> RuleData("SC-002", "raw queries need review", "[raw",
                      "MEDIUM", "FLAG")]

\* A record of the result list that is not a dict (it has no .get).
NonDictRecord ==
  [id |-> 0, name |-> "none", is_active |-> FALSE, is_dict |-> FALSE,
   rules |-> RuleData("none", "none", "none", "none", "none")]

\* What the store may hold (the result list of get_active_policies).
StoreContents ==
  {<<>>, <<PolicyA>>, <<PolicyA, PolicyB, PolicyC, PolicyD>>,
   <<PolicyA, NonDictRecord, PolicyC>>}

Urls == {"u1", "u2"}

\* The notification categories for which the model registers endpoints.
\* Alerts are delivered to those of BLOCK_ALERT; FLAG_ALERT stands for the
\* categories whose lists no modelled delivery reads.
RegTypes == {"BLOCK_ALERT", "FLAG_ALERT"}

\* ------------------------------------------------------------------------
\* Oracle replies of the model
\* ------------------------------------------------------------------------
DBlock == Dict("BLOCK", Rat(OkRationaleLen, {}), "MEDIUM", RulesAbsent)

DAllow == Dict("allow", Rat(OkRationaleLen, {}), Null, Rules(<<"dp-001">>))

DFlag == Dict("Flag", Rat(OkRationaleLen, {"ac-003"}), "high", Rules(<<>>))

DBlockNoSeverity == Dict("BLOCK", Rat(OkRationaleLen, {}), Absent, RulesAbsent)

DBlockNullSeverity == Dict("block", Rat(OkRationaleLen, {}), Null, RulesAbsent)

DNoRationale == Dict("ALLOW", RatAbsent, Absent, RulesAbsent)

DNoDecision == Dict(Absent, Rat(OkRationaleLen, {}), "LOW", RulesAbsent)

DBadDecision == Dict("MAYBE", Rat(OkRationaleLen, {}), Absent, RulesAbsent)

DBadSeverity == Dict("ALLOW", Rat(OkRationaleLen, {}), "CRITICAL", RulesAbsent)

DNonStrDecision == Dict(NonStr, Rat(OkRationaleLen, {}), Absent, RulesAbsent)

DLongRationale == Dict("ALLOW", Rat(LongRationaleLen, {}), Absent, RulesAbsent)

DShortRationale == Dict("FLAG", Rat(ShortRationaleLen, {}), "LOW", RulesAbsent)

\* Replies that list rule ids the action's rules do not have.
DAllowMixed ==
  Dict("ALLOW", Rat(OkRationaleLen, {}), Absent, Rules(<<"xx-999", "dp-001">>))

DAllowUnknown ==
  Dict("ALLOW", Rat(OkRationaleLen, {}), Absent, Rules(<<"xx-999">>))

DBlockUnknown ==
  Dict("BLOCK", Rat(OkRationaleLen, {"no public channel posts"}), "HIGH",
       Rules(<<"xx-999">>))

\* Replies from which a decision object can be extracted and loaded.
JsonReplies ==
  {Obj(DBlock), Obj(DAllow),
   <<Tok("TXT"), Tok("FJ")>> \o Obj(DFlag) \o <<Tok("F")>>,
   Obj(DBlockNoSeverity),
   <<Tok("TXT"), Tok("OUT")>> \o Obj(DBlockNullSeverity),
   Obj(DNoRationale), Obj(DNoDecision), Obj(DBadDecision), Obj(DBadSeverity),
   Obj(DNonStrDecision), Obj(DLongRationale), Obj(DShortRationale),
   Obj(DAllowMixed), Obj(DAllowUnknown), Obj(DBlockUnknown),
   <<Tok("F"), Tok("NUM"), Tok("F")>>}

\* A reply that opens with braces around text that is not JSON and goes on
\* with a decision object in a json code fence.
BracedProseThenFenced ==
  <<Tok("LB"), Tok("GARB"), Tok("RB"), Tok("FJ")>> \o Obj(DAllow)
    \o <<Tok("F")>>

\* Non-empty replies from which _extract_json_from_response returns
\* nothing, or text that json.loads rejects.
ProseReplies ==
  {<<Tok("TXT")>>,
   <<Tok("LB"), Tok("GARB"), Tok("RB")>>,
   <<Tok("TXT"), Tok("F"), Tok("GARB"), Tok("F")>>,
   <<Tok("TXT"), Tok("LB"), Tok("GARB")>>,
   BracedProseThenFenced}

Replies == JsonReplies \cup ProseReplies

\* What one oracle call may do: raise, return empty content, or reply.
OracleOutcomes ==
  {[k |-> "raise", len |-> n, content |-> <<>>] : n \in {ShortMsgLen, LongMsgLen}}
  \cup {[k |-> "empty", len |-> 0, content |-> <<>>]}
  \cup {[k |-> "content", len |-> 0, content |-> c] : c \in Replies}

\* ------------------------------------------------------------------------
\* State
\* ------------------------------------------------------------------------
VARIABLES
  proc,             \* per caller: the position and locals of its coroutine
  _policy_cache,    \* ReasoningEngine._policy_cache, in insertion order
  _cache_timestamp, \* ReasoningEngine._cache_timestamp (set = FALSE: None)
  _decision_stats,  \* ReasoningEngine._decision_stats
  db_service,       \* ReasoningEngine.db_service: what the handle is
  initialized,      \* initialize() has wired llm_provider and notify_service
  webhook_urls,     \* NotificationService.webhook_urls
  store,            \* the policy store's active records
  now,              \* the clock, in seconds
  ticks,            \* clock advances so far
  started,          \* process_action calls so far
  alerts,           \* direct send_immediate_alert calls so far
  verdicts,         \* the verdicts process_action has returned, by decision
  _pending_tasks,   \* NotificationService._pending_tasks
  created,          \* every task asyncio.create_task has made, in order
  closing,          \* the coroutine of NotificationService.close()
  store_version,    \* how often the store's records have changed
  index_version,    \* the store_version the index was last built from
  overlaps,         \* requests that arrived while another was in progress
  last_refresh,     \* how the latest refresh of the index ended
  finished          \* notification tasks that have completed

vars == <<proc, _policy_cache, _cache_timestamp, _decision_stats, db_service,
          initialized, webhook_urls, store, now, ticks, started, alerts,
          verdicts, _pending_tasks, created, closing, store_version,
          index_version, overlaps, last_refresh, finished>>

\* Coroutines of process_action.
Procs == {"p1", "p2"}

\* A caller of NotificationService.send_immediate_alert outside the engine.
Ext == "ext"

Callers == Procs \cup {Ext}

NoAction == [action_id |-> 0, target_tool |-> "none"]

IdleProc ==
  [pc |-> "idle", action |-> NoAction, relevant_rules |-> <<>>,
   attempt |-> 0, calls |-> 0, delays |-> <<>>, events |-> <<>>,
   response |-> <<>>, response_attempt |-> 0,
   decision |-> NoDecision, path |-> "none", fault |-> NoExc,
   notif |-> "none", notif_result |-> "none", payload_type |-> "none",
   url_idx |-> 0, url |-> "none", post_attempt |-> 0,
   posts |-> [u \in Urls |-> 0], post_failed |-> FALSE,
   post_log |-> <<>>, post_delays |-> <<>>,
   age |-> -1, refreshes |-> 0, refresh |-> "none", index_before |-> <<>>,
   audits |-> 0, audit_requests |-> <<>>,
   audit_result |-> "none",
   counted |-> FALSE, index_used |-> <<>>, urls_changed |-> FALSE,
   store_at_call |-> [policies |-> <<>>, version |-> 0]]

\* The part of the engine state a pipeline step may change.
Globals ==
  [cache |-> _policy_cache, ts |-> _cache_timestamp,
   stats |-> _decision_stats]

Out(l, g) == [l |-> l, g |-> g]

\* ------------------------------------------------------------------------
\* Policy cache (core/engine.py)
\* ------------------------------------------------------------------------
\* The append were the key of a new pattern created without its entry.
CacheAppendKeyOnly(cache, pattern, entry) ==
  IF \E i \in 1..Len(cache) : cache[i].pattern = pattern
  THEN [i \in 1..Len(cache) |->
          IF cache[i].pattern = pattern
          THEN [cache[i] EXCEPT !.entries = Append(@, entry)]
          ELSE cache[i]]
  ELSE Append(cache, [pattern |-> pattern, entries |-> <<>>])

\* self._policy_cache[target_regex].append(entry) on the ordered mapping.
CacheAppend(cache, pattern, entry) ==
  IF \E i \in 1..Len(cache) : cache[i].pattern = pattern
  THEN [i \in 1..Len(cache) |->
          IF cache[i].pattern = pattern
          THEN [cache[i] EXCEPT !.entries = Append(@, entry)]
          ELSE cache[i]]
  ELSE Append(cache, [pattern |-> pattern, entries |-> <<entry>>])

RECURSIVE LoadInto(_, _, _)
\* The for loop of _load_active_policies over the store's result, on the
\* cache itself: the cache so far, and whether the loop was left by an
\* exception (policy.get on a record that is not a dict).
LoadInto(cache, policies, i) ==
  IF i > Len(policies) THEN [cache |-> cache, aborted |-> FALSE]
  ELSE IF ~policies[i].is_dict THEN [cache |-> cache, aborted |-> TRUE]
  ELSE IF policies[i].is_active /\ PolicyRuleValid(policies[i].rules)
  THEN LoadInto(CacheAppend(cache, policies[i].rules.target_tool_regex,
                            [policy_id |-> policies[i].id,
                             policy_name |-> policies[i].name,
                             rule |-> policies[i].rules]),
                policies, i + 1)
  ELSE LoadInto(cache, policies, i + 1)

\* The end of _load_active_policies: the timestamp is set after the loop,
\* the except clause leaves what the loop did to the cache.
Loaded(g, r) ==
  [g EXCEPT !.cache = r.cache,
            !.ts = IF r.aborted THEN g.ts ELSE [set |-> TRUE, t |-> now]]

_load_active_policiesNoClear(g, policies) ==
  Loaded(g, LoadInto(g.cache, policies, 1))

\* _load_active_policies once the store has answered: clear(), the loop.
_load_active_policies(g, policies) ==
  Loaded(g, LoadInto(<<>>, policies, 1))

LoadFailedClears(g) == [g EXCEPT !.cache = <<>>]

\* _load_active_policies when get_active_policies raises (or the handle has
\* no such method): the except clause keeps the cache and the timestamp.
LoadFailed(g) == g

\* timedelta.seconds: the whole seconds of the difference that remain
\* after its whole days; the fraction of a second is in .microseconds.
TimedeltaSeconds(later, earlier) ==
  ((later - earlier) \div TicksPerSecond) % DaySeconds

\* The condition of _ensure_fresh_policies.
NeedsRefresh(ts) ==
  ~ts.set \/ TimedeltaSeconds(now, ts.t) > _cache_ttl

RECURSIVE Relevant(_, _, _)
\* _get_relevant_policies: the entries of every matching pattern.
Relevant(cache, target_tool, i) ==
  IF i > Len(cache) THEN <<>>
  ELSE (IF PatternMatches(cache[i].pattern, target_tool)
        THEN cache[i].entries ELSE <<>>)
       \o Relevant(cache, target_tool, i + 1)

RelevantIgnoringTool(cache, target_tool) ==
  IF cache = <<>> THEN <<>> ELSE cache[1].entries

_get_relevant_policies(cache, target_tool) == Relevant(cache, target_tool, 1)

\* ------------------------------------------------------------------------
\* Pipeline of process_action, from one await to the next
\* ------------------------------------------------------------------------
\* An update that counts the verdict in the total only.
_update_statsTotalOnly(stats, decision) ==
  [stats EXCEPT !.total = @ + 1]

\* _update_stats
_update_stats(stats, decision) ==
  [total |-> stats.total + 1,
   allow |-> stats.allow + (IF decision.decision = "ALLOW" THEN 1 ELSE 0),
   block |-> stats.block + (IF decision.decision = "BLOCK" THEN 1 ELSE 0),
   flag |-> stats.flag + (IF decision.decision = "FLAG" THEN 1 ELSE 0)]

\* After _log_decision: the statistics update (not on the emergency path)
\* and the return of the verdict.
AfterLog(l, g) ==
  IF l.path = "emergency"
  THEN Out([l EXCEPT !.pc = "done"], g)
  ELSE Out([l EXCEPT !.pc = "done", !.counted = TRUE],
           [g EXCEPT !.stats = _update_stats(g.stats, l.decision)])

AuditRecord(d) ==
  [action_id |-> d.action_id, decision |-> d.decision,
   applied_rules |-> d.applied_rules]

\* _log_decision were the statistics updated before the audit write is
\* awaited.
EnterLogStatsFirst(l, g) ==
  IF db_service = "instance"
  THEN Out([l EXCEPT !.pc = "log", !.audits = @ + 1,
                      !.audit_requests = Append(@, AuditRecord(l.decision)),
                      !.counted = TRUE],
           [g EXCEPT !.stats = _update_stats(g.stats, l.decision)])
  ELSE AfterLog(l, g)

\* _log_decision up to its await: a handle that is not a DatabaseService
\* has no log_audit (AttributeError, caught and logged).
EnterLog(l, g) ==
  IF db_service = "instance"
  THEN Out([l EXCEPT !.pc = "log", !.audits = @ + 1,
                      !.audit_requests = Append(@, AuditRecord(l.decision))],
           g)
  ELSE AfterLog(l, g)

\* What follows send_immediate_alert in its caller: the engine goes on to
\* the audit write whatever happened; another caller gets the exception.
AfterAlert(c, l, g, result) ==
  IF c \in Procs
  THEN EnterLog([l EXCEPT !.notif = "finished", !.notif_result = result], g)
  ELSE Out([l EXCEPT !.notif = "finished", !.notif_result = result,
                     !.pc = IF result = "raised" THEN "raised" ELSE "done"],
           g)

\* The POST to the endpoint at position i of the category's list.
StartPost(l, urls, i) ==
  [l EXCEPT !.pc = "post", !.url_idx = i, !.url = urls[i],
            !.post_attempt = 0, !.post_delays = <<>>,
            !.posts = [@ EXCEPT ![urls[i]] = @ + 1],
            !.post_log = Append(@, urls[i])]

\* send_immediate_alert up to its first await.
AlertTyped(c, l, g, notification_type) ==
  IF notification_type = "<ValueError>"
    THEN AfterAlert(c, l, g, "raised")
  ELSE IF webhook_urls[notification_type] = <<>>
    THEN AfterAlert(c, l, g, "no_urls")
  ELSE Out(StartPost(l, webhook_urls[notification_type], 1), g)

send_immediate_alert(c, l, g, payload_type) ==
  AlertTyped(c, [l EXCEPT !.notif = "started", !.payload_type = payload_type],
             g, NotificationTypeByValue(payload_type))

\* _immediate_block_notification
_immediate_block_notification(c, l, g) ==
  send_immediate_alert(c, l, g, EnginePayloadType)

AfterDecisionUnlessSafeBlock(c, l, g, d, path) ==
  IF d.decision = "BLOCK" /\ path # "safe_block"
  THEN _immediate_block_notification(c, [l EXCEPT !.decision = d,
                                                  !.path = path], g)
  ELSE EnterLog([l EXCEPT !.decision = d, !.path = path], g)

\* Steps 7-9 of process_action for a decision.
AfterDecision(c, l, g, d, path) ==
  IF d.decision = "BLOCK"
  THEN _immediate_block_notification(c, [l EXCEPT !.decision = d,
                                                  !.path = path], g)
  ELSE EnterLog([l EXCEPT !.decision = d, !.path = path], g)

\* The except clause of process_action once the emergency decision is
\* built, or its ValidationError leaves process_action.
AfterEmergency(c, l, g, em) ==
  IF ~em.ok
  THEN Out([l EXCEPT !.pc = "raised"], g)
  ELSE _immediate_block_notification(c,
         [l EXCEPT !.decision = em.d, !.path = "emergency"], g)

\* The except clause of process_action.
OnException(c, l, g, e) ==
  AfterEmergency(c, [l EXCEPT !.fault = e], g, EmergencyDecision(l.action, e))

\* Steps 7-9 of process_action, or its except clause, for what
\* _parse_llm_response gave.
AfterParsed(c, l, g, r) ==
  IF r.kind = "raise" THEN OnException(c, l, g, r.e)
  ELSE AfterDecision(c, l, g, r.d,
                     IF r.safe THEN "safe_block" ELSE "finalize")

\* Steps 6-9 of process_action for the oracle's response.
AfterResponse(c, l, g, content) ==
  AfterParsed(c, [l EXCEPT !.response = content,
                           !.response_attempt = l.attempt + 1], g,
              _parse_llm_response(content, l.action, l.relevant_rules))

\* An event of the retry loop: a call, its failure or success, a delay.
Ev(e, d) == [e |-> e, d |-> d]

\* Steps 2-5 of process_action for the resolved rules: the default ALLOW
\* or the first oracle call.
Resolved(c, l, g, relevant_rules, allow) ==
  IF relevant_rules = <<>>
  THEN IF allow.ok
       THEN EnterLog([l EXCEPT !.decision = allow.d,
                               !.path = "allow_default"], g)
       ELSE OnException(c, l, g, allow.e)
  ELSE Out([l EXCEPT !.relevant_rules = relevant_rules, !.pc = "llm",
                     !.attempt = 0, !.calls = 1,
                     !.events = <<Ev("call", 0)>>], g)

\* Steps 2-5 of a process_action that answers BLOCK when no rule is
\* resolved.
ResolveFailClosed(c, l, g) ==
  Resolved(c, [l EXCEPT !.index_used = g.cache], g,
           _get_relevant_policies(g.cache, l.action.target_tool),
           Decision(l.action, "BLOCK",
                    Str("no_policies", NoPoliciesLen, "none", {}),
                    NoSeverity, <<>>))

\* Steps 2-5 of process_action.
Resolve(c, l, g) ==
  Resolved(c, [l EXCEPT !.index_used = g.cache], g,
           _get_relevant_policies(g.cache, l.action.target_tool),
           Decision(l.action, "ALLOW",
                    Str("no_policies", NoPoliciesLen, "none", {}),
                    NoSeverity, <<>>))

\* ------------------------------------------------------------------------
\* Initial state and actions
\* ------------------------------------------------------------------------
\* Position of NotificationService.close(): not called, awaiting the
\* drain of the pending tasks, awaiting http_client.aclose(), returned.
\* timed_out: the drain ended at its deadline; abandoned: the tasks that
\* were still pending then.
NotClosing == [pc |-> "open", timed_out |-> FALSE, abandoned |-> {}]

Init ==
  /\ proc = [c \in Callers |-> IdleProc]
  /\ _policy_cache = <<>>
  /\ _cache_timestamp = [set |-> FALSE, t |-> 0]
  /\ _decision_stats = [total |-> 0, allow |-> 0, block |-> 0, flag |-> 0]
  /\ db_service = "None"
  /\ initialized = FALSE
  /\ webhook_urls = [n \in NotificationTypeNames |-> <<>>]
  /\ store \in StoreContents
  /\ now = 0
  /\ ticks = 0
  /\ started = 0
  /\ alerts = 0
  /\ verdicts = [total |-> 0, allow |-> 0, block |-> 0, flag |-> 0]
  /\ _pending_tasks = {}
  /\ created = <<>>
  /\ closing = NotClosing
  /\ store_version = 0
  /\ index_version = 0
  /\ overlaps = 0
  /\ last_refresh = "none"
  /\ finished = {}

\* Install the result of a pipeline step.
Install(c, r) ==
  /\ proc' = [proc EXCEPT ![c] = r.l]
  /\ _policy_cache' = r.g.cache
  /\ _cache_timestamp' = r.g.ts
  /\ _decision_stats' = r.g.stats

\* What DatabaseService.get_instance() gives when it is called without
\* await: the coroutine object, not the DatabaseService.
GetInstanceUnawaited == "coroutine"

\* ReasoningEngine.initialize: wires the collaborators and loads the
\* policies; the load fails on a handle without get_active_policies.
Initialize ==
  /\ ~initialized
  /\ \A n \in RegTypes \ {"BLOCK_ALERT"} : webhook_urls[n] = <<>>
  /\ initialized' = TRUE
  /\ db_service' = GetInstanceUnawaited
  /\ IF GetInstanceUnawaited = "instance"
     THEN \E ok \in BOOLEAN :
            LET g == IF ok THEN _load_active_policies(Globals, store)
                     ELSE Globals
            IN /\ _policy_cache' = g.cache
               /\ _cache_timestamp' = g.ts
               /\ last_refresh' = IF ok THEN "ok" ELSE "failed"
     ELSE /\ UNCHANGED <<_policy_cache, _cache_timestamp>>
          /\ last_refresh' = "failed"
  /\ UNCHANGED <<proc, _decision_stats, webhook_urls, store, now,
                 ticks, started, alerts, verdicts,
                 _pending_tasks, created, closing, store_version,
                 index_version, overlaps, finished>>

\* An embedding that passes a connected DatabaseService to the engine
\* (db_service is a plain attribute), before it processes actions.
WireStore ==
  /\ initialized
  /\ started = 0
  /\ \A c \in Callers : proc[c].pc = "idle"
  /\ db_service # "instance"
  /\ db_service' = "instance"
  /\ UNCHANGED <<proc, _policy_cache, _cache_timestamp, _decision_stats,
                 initialized, webhook_urls, store, now, ticks,
                 started, alerts, verdicts,
                 _pending_tasks, created, closing, store_version, index_version, overlaps, last_refresh, finished>>

\* The time since the last successful refresh, in clock units; -1 when the
\* cache was never populated.
Age == IF _cache_timestamp.set THEN now - _cache_timestamp.t ELSE -1

\* The endpoint lists under which requests are modelled: none registered
\* and all registered.  The other lists occur with direct alerts.
RequestUrls == {<<>>, <<"u1", "u2">>}

\* Requests overlap where a pipeline can be suspended with the shared index
\* at stake: the second request arrives while the first request of the
\* service awaits the store.  A behaviour has one such pair at most.
MayStart(p) ==
  /\ overlaps = 0
  /\ IF p = "p1" THEN proc["p2"].pc = "idle"
     ELSE proc["p1"].pc = "load" /\ started = 1

\* The latest refresh failed although the index had been populated before:
\* the cache timestamp is the one of the earlier, successful refresh.
RetryDue ==
  /\ _cache_timestamp.set
  /\ last_refresh \in {"failed", "aborted"}

\* The requests of a behaviour: MaxActions of them, and one more that
\* arrives a day after a refresh of a populated index failed.
MayArrive ==
  \/ started < MaxActions
  \/ started = MaxActions /\ ticks > MaxTicks /\ RetryDue

\* process_action up to its first await: the freshness check, and when no
\* refresh is awaited the resolution and what follows it.
ProcessAction(p, target_tool) ==
  /\ initialized
  /\ MayStart(p)
  /\ closing.pc = "open"
  /\ webhook_urls["BLOCK_ALERT"] \in RequestUrls
  /\ proc[p].pc = "idle"
  /\ proc[Ext].pc = "idle"
  /\ alerts = 0
  /\ MayArrive
  /\ started' = started + 1
  /\ LET l == [IdleProc EXCEPT
                 !.action = [action_id |-> started + 1,
                             target_tool |-> target_tool],
                 !.age = Age]
     IN IF ~NeedsRefresh(_cache_timestamp)
        THEN Install(p, Resolve(p, l, Globals))
        ELSE IF db_service = "instance"
        THEN Install(p, Out([l EXCEPT !.pc = "load", !.refreshes = 1,
                                      !.index_before = _policy_cache,
                                      !.store_at_call =
                                        [policies |-> store,
                                         version |-> store_version]],
                            Globals))
        ELSE Install(p, Resolve(p, [l EXCEPT !.refreshes = 1,
                                             !.refresh = "failed",
                                             !.index_before = _policy_cache],
                                LoadFailed(Globals)))
  /\ overlaps' = IF p = "p2" THEN overlaps + 1 ELSE overlaps
  /\ last_refresh' = IF NeedsRefresh(_cache_timestamp)
                        /\ db_service # "instance"
                     THEN "failed" ELSE last_refresh
  /\ UNCHANGED <<db_service, initialized, webhook_urls, store, now, ticks,
                 alerts, verdicts, _pending_tasks, created, closing,
                 store_version, index_version, finished>>

\* The rest of process_action once the refresh is over.
AfterLoad(c, l, g, result) ==
  Resolve(c, [l EXCEPT !.refresh = result], g)

\* The result list a refresh works on, were it the store's records at the
\* time the refresh was started.
StoreReadAtCall(l) == l.store_at_call

\* The result list a refresh works on: _get_active_policies_internal runs
\* its query without an await, and no await lies between its return and
\* the loop of _load_active_policies, so the list is the store's records at
\* the time the refresh resumes.
StoreRead(l) == [policies |-> store, version |-> store_version]

LoadedFrom(p, read) ==
  /\ Install(p, AfterLoad(p, [proc[p] EXCEPT !.index_before = _policy_cache],
                          _load_active_policies(Globals, read.policies),
                          IF \E i \in 1..Len(read.policies) :
                               ~read.policies[i].is_dict
                          THEN "aborted" ELSE "ok"))
  /\ index_version' = read.version

\* get_active_policies answers (ok) or fails after its retries.
LoadReturn(p, ok) ==
  /\ proc[p].pc = "load"
  /\ IF ok
     THEN LoadedFrom(p, StoreRead(proc[p]))
     ELSE /\ Install(p, AfterLoad(p, [proc[p] EXCEPT
                                         !.index_before = _policy_cache],
                                   LoadFailed(Globals), "failed"))
          /\ UNCHANGED index_version
  /\ last_refresh' = proc'[p].refresh
  /\ UNCHANGED <<db_service, initialized, webhook_urls, store, now, ticks,
                 started, alerts, verdicts,
                 _pending_tasks, created, closing, store_version,
                 overlaps, finished>>

\* A change of the store's records: a record is added, removed or repaired.
ChangeOf(policies) ==
  IF policies = <<>> THEN <<PolicyA>>
  ELSE IF policies = <<PolicyA>> THEN <<PolicyA, PolicyB, PolicyC, PolicyD>>
  ELSE IF policies = <<PolicyA, PolicyB, PolicyC, PolicyD>> THEN <<PolicyA>>
  ELSE <<PolicyA, PolicyB, PolicyC, PolicyD>>

\* The records of the store change while overlapping refreshes await it.
StoreChange(policies) ==
  /\ proc["p2"].pc = "load"
  /\ store_version < MaxStoreChanges
  /\ policies = ChangeOf(store)
  /\ store' = policies
  /\ store_version' = store_version + 1
  /\ UNCHANGED <<proc, _policy_cache, _cache_timestamp, _decision_stats,
                 db_service, initialized, webhook_urls, now, ticks,
                 started, alerts, verdicts, _pending_tasks, created,
                 closing, index_version, overlaps, last_refresh, finished>>

\* What the oracle may do for requests that overlap, and for requests
\* after the second clock advance.
OverlapOutcomes ==
  {[k |-> "raise", len |-> ShortMsgLen, content |-> <<>>],
   [k |-> "content", len |-> 0, content |-> Obj(DBlock)]}

\* The exception of one failed oracle attempt.
AttemptError(o) ==
  IF o.k = "raise" THEN Exc("Exception", "oracle_error", o.len)
  ELSE Exc("ValueError", "oracle_empty", EmptyResponseLen)

\* One attempt of _call_llm_with_retry returns.
LlmReturn(p, o) ==
  /\ proc[p].pc = "llm"
  /\ o \in IF overlaps > 0 \/ ticks > 1
            THEN OverlapOutcomes ELSE OracleOutcomes
  /\ LET l == proc[p]
         e == AttemptError(o)
     IN IF o.k = "content"
        THEN Install(p, AfterResponse(p,
                          [l EXCEPT !.events = Append(@, Ev("ok", 0))],
                          Globals, o.content))
        ELSE IF l.attempt = max_retries - 1
        THEN Install(p, OnException(p,
                          [l EXCEPT !.events = Append(@, Ev("fail", 0))],
                          Globals,
                          Exc("Exception", e.fault, RetryPrefixLen + e.len)))
        ELSE Install(p, Out([l EXCEPT !.pc = "sleep",
                               !.delays = Append(@, BackoffDelay(l.attempt)),
                               !.events = @ \o <<Ev("fail", 0),
                                   Ev("delay", BackoffDelay(l.attempt))>>],
                            Globals))
  /\ UNCHANGED <<db_service, initialized, webhook_urls, store, now, ticks,
                 started, alerts, verdicts,
                 _pending_tasks, created, closing, store_version, index_version, overlaps, last_refresh, finished>>

\* asyncio.sleep(delay) of the retry loop is over: the next attempt.
SleepReturn(p) ==
  /\ proc[p].pc = "sleep"
  /\ proc' = [proc EXCEPT ![p].pc = "llm", ![p].attempt = @ + 1,
                          ![p].calls = @ + 1,
                          ![p].events = Append(@, Ev("call", 0))]
  /\ UNCHANGED <<_policy_cache, _cache_timestamp, _decision_stats, db_service,
                 initialized, webhook_urls, store, now, ticks,
                 started, alerts, verdicts,
                 _pending_tasks, created, closing, store_version, index_version, overlaps, last_refresh, finished>>

\* The loop of _send_webhook_notification_sync were it left at the first
\* endpoint whose delivery failed.
NextEndpointUnlessFailed(c, l, g) ==
  LET urls == webhook_urls[NotificationTypeByValue(l.payload_type)]
  IN IF l.url_idx + 1 <= Len(urls) /\ ~l.post_failed
     THEN Out(StartPost(l, urls, l.url_idx + 1), g)
     ELSE AfterAlert(c, l, g, "completed")

\* The rest of _send_webhook_notification_sync after one endpoint.
NextEndpoint(c, l, g) ==
  LET urls == webhook_urls[NotificationTypeByValue(l.payload_type)]
  IN IF l.url_idx + 1 <= Len(urls)
     THEN Out(StartPost(l, urls, l.url_idx + 1), g)
     ELSE AfterAlert(c, l, g, "completed")

\* The delay of _send_single_webhook_sync before the next attempt.
SyncDelay(outcome, attempt) == IF outcome = "timeout" THEN 1 ELSE attempt + 1

\* One POST of _send_single_webhook_sync returns.
PostReturn(c, outcome) ==
  /\ proc[c].pc = "post"
  /\ LET l == proc[c]
     IN IF outcome = "ok"
        THEN Install(c, NextEndpoint(c, l, Globals))
        ELSE IF l.post_attempt = sync_max_retries - 1
        THEN Install(c, NextEndpoint(c, [l EXCEPT !.post_failed = TRUE],
                                     Globals))
        ELSE Install(c, Out([l EXCEPT !.pc = "backoff", !.post_failed = TRUE,
                               !.post_delays =
                                 Append(@, SyncDelay(outcome, l.post_attempt))],
                            Globals))
  /\ UNCHANGED <<db_service, initialized, webhook_urls, store, now, ticks,
                 started, alerts, verdicts,
                 _pending_tasks, created, closing, store_version, index_version, overlaps, last_refresh, finished>>

\* asyncio.sleep of the delivery loop is over: the next POST.
BackoffReturn(c) ==
  /\ proc[c].pc = "backoff"
  /\ proc' = [proc EXCEPT ![c].pc = "post", ![c].post_attempt = @ + 1,
                          ![c].posts = [@ EXCEPT ![proc[c].url] = @ + 1],
                          ![c].post_log = Append(@, proc[c].url)]
  /\ UNCHANGED <<_policy_cache, _cache_timestamp, _decision_stats, db_service,
                 initialized, webhook_urls, store, now, ticks,
                 started, alerts, verdicts,
                 _pending_tasks, created, closing, store_version, index_version, overlaps, last_refresh, finished>>

\* log_audit returns or raises; _log_decision swallows the failure.
LogReturn(p, ok) ==
  /\ proc[p].pc = "log"
  /\ Install(p, AfterLog([proc[p] EXCEPT !.audit_result =
                            IF ok THEN "ok" ELSE "failed"], Globals))
  /\ UNCHANGED <<db_service, initialized, webhook_urls, store, now, ticks,
                 started, alerts, verdicts,
                 _pending_tasks, created, closing, store_version, index_version, overlaps, last_refresh, finished>>

\* One more verdict of the given decision in a tally by decision.
Tally(t, d) ==
  [total |-> t.total + 1,
   allow |-> t.allow + (IF d.decision = "ALLOW" THEN 1 ELSE 0),
   block |-> t.block + (IF d.decision = "BLOCK" THEN 1 ELSE 0),
   flag |-> t.flag + (IF d.decision = "FLAG" THEN 1 ELSE 0)]

\* The caller has received the verdict or the exception.
ReturnToCaller(c) ==
  /\ proc[c].pc \in {"done", "raised"}
  /\ proc' = [proc EXCEPT ![c] = IdleProc]
  /\ verdicts' = IF c \in Procs /\ proc[c].pc = "done"
                 THEN Tally(verdicts, proc[c].decision)
                 ELSE verdicts
  /\ UNCHANGED <<_policy_cache, _cache_timestamp, _decision_stats, db_service,
                 initialized, webhook_urls, store, now, ticks,
                 started, alerts, _pending_tasks, created, closing, store_version, index_version, overlaps, last_refresh, finished>>

\* A caller other than the engine awaits send_immediate_alert(payload).
\* Such an alert and an action's pipeline do not interleave and neither
\* writes what the other reads, so a behaviour has alerts or actions.
SendImmediateAlert(payload_type) ==
  /\ initialized
  /\ closing.pc = "open"
  /\ proc[Ext].pc = "idle"
  /\ \A p \in Procs : proc[p].pc = "idle"
  /\ started = 0
  /\ alerts < MaxAlerts
  /\ alerts' = alerts + 1
  /\ Install(Ext, send_immediate_alert(Ext, IdleProc, Globals, payload_type))
  /\ UNCHANGED <<db_service, initialized, webhook_urls, store, now, ticks,
                 started, verdicts,
                 _pending_tasks, created, closing, store_version, index_version, overlaps, last_refresh, finished>>

\* The category send_alert picks for a decision ("None": no notification).
AlertCategory(decision) ==
  IF decision = "BLOCK" THEN "BLOCK_ALERT"
  ELSE IF decision = "FLAG" THEN "FLAG_ALERT"
  ELSE "None"

\* asyncio.create_task(self._send_webhook_notification_async(...)).
NewTask(notification_type, action_id) ==
  [id |-> Len(created) + 1, type |-> notification_type,
   action_id |-> action_id]

\* NotificationService.send_alert(decision, action): for BLOCK and FLAG a
\* task is created and tracked, and the call returns without awaiting it.
\* No code of the repository calls it; the caller is outside the engine.
\* self._pending_tasks.add(task) without the adding.
TrackNothing(tasks, task) == tasks

\* self._pending_tasks.add(task)
Track(tasks, task) == tasks \cup {task}

send_alert(decision) ==
  /\ initialized
  /\ closing.pc = "open"
  /\ \A c \in Callers : proc[c].pc = "idle"
  /\ started = 0
  /\ alerts < MaxAlerts
  /\ alerts' = alerts + 1
  /\ IF AlertCategory(decision) # "None"
     THEN LET task == NewTask(AlertCategory(decision), NoAction.action_id)
          IN /\ created' = Append(created, task)
             /\ _pending_tasks' = Track(_pending_tasks, task)
     ELSE UNCHANGED <<_pending_tasks, created>>
  /\ UNCHANGED <<proc, _policy_cache, _cache_timestamp, _decision_stats,
                 db_service, initialized, webhook_urls, store, now, ticks,
                 started, verdicts, closing, store_version, index_version, overlaps, last_refresh, finished>>

\* NotificationService.send_system_alert: the task is created and tracked
\* as in send_alert, whatever the message and the severity.
send_system_alert ==
  /\ initialized
  /\ closing.pc = "open"
  /\ \A c \in Callers : proc[c].pc = "idle"
  /\ started = 0
  /\ alerts < MaxAlerts
  /\ alerts' = alerts + 1
  /\ LET task == NewTask("SYSTEM_ALERT", NoAction.action_id)
     IN /\ created' = Append(created, task)
        /\ _pending_tasks' = Track(_pending_tasks, task)
  /\ UNCHANGED <<proc, _policy_cache, _cache_timestamp, _decision_stats,
                 db_service, initialized, webhook_urls, store, now, ticks,
                 started, verdicts, closing, store_version, index_version,
                 overlaps, last_refresh, finished>>

\* A tracked task completes: it returns, raises or is cancelled.  Its done
\* callbacks are scheduled, not yet run.
TaskEnds(task) ==
  /\ task \in _pending_tasks \ finished
  /\ finished' = finished \cup {task}
  /\ UNCHANGED <<proc, _policy_cache, _cache_timestamp, _decision_stats,
                 db_service, initialized, webhook_urls, store, now, ticks,
                 started, alerts, verdicts, _pending_tasks, created, closing,
                 store_version, index_version, overlaps, last_refresh>>

\* The done callback of a completed task runs: it discards the task from
\* the set.
TaskDone(task) ==
  /\ task \in _pending_tasks \cap finished
  /\ _pending_tasks' = _pending_tasks \ {task}
  /\ UNCHANGED <<proc, _policy_cache, _cache_timestamp, _decision_stats,
                 db_service, initialized, webhook_urls, store, now, ticks,
                 started, alerts, verdicts, created, closing, store_version, index_version, overlaps, last_refresh, finished>>

\* self._pending_tasks.clear() without the clearing.
ClearPendingKeeps(tasks) == tasks

\* self._pending_tasks.clear()
ClearPending(tasks) == {}

\* NotificationService.close() up to its first await: with no pending task
\* wait_for_pending_tasks returns at once and close goes on to aclose().
\* It is the shutdown of the service: no request is in progress and none
\* starts afterwards.
close ==
  /\ initialized
  /\ closing.pc = "open"
  /\ \A c \in Callers : proc[c].pc = "idle"
  /\ closing' = [closing EXCEPT
                   !.pc = IF _pending_tasks = {} THEN "aclose" ELSE "drain"]
  /\ UNCHANGED <<proc, _policy_cache, _cache_timestamp, _decision_stats,
                 db_service, initialized, webhook_urls, store, now, ticks,
                 started, alerts, verdicts, _pending_tasks, created,
                 store_version, index_version, overlaps, last_refresh, finished>>

\* asyncio.wait_for(gather(...), timeout) is over.  Either every task is
\* done, or the deadline passed: wait_for cancels the gather and its tasks
\* and raises TimeoutError, which wait_for_pending_tasks catches.  Which
\* of the cancelled tasks have had their done callback run by then is left
\* open.
DrainReturn(timed_out) ==
  /\ closing.pc = "drain"
  /\ IF timed_out
     THEN /\ _pending_tasks # {}
          /\ \E left \in SUBSET _pending_tasks :
               /\ _pending_tasks' = left
               /\ closing' = [pc |-> "aclose", timed_out |-> TRUE,
                              abandoned |-> _pending_tasks]
               /\ finished' = finished \cup _pending_tasks
     ELSE /\ _pending_tasks = {}
          /\ closing' = [closing EXCEPT !.pc = "aclose"]
          /\ UNCHANGED <<_pending_tasks, finished>>
  /\ UNCHANGED <<proc, _policy_cache, _cache_timestamp, _decision_stats,
                 db_service, initialized, webhook_urls, store, now, ticks,
                 started, alerts, verdicts, created,
                 store_version, index_version, overlaps, last_refresh>>

\* http_client.aclose() returns; close clears the set and returns.
AcloseReturn ==
  /\ closing.pc = "aclose"
  /\ closing' = [closing EXCEPT !.pc = "closed"]
  /\ _pending_tasks' = ClearPending(_pending_tasks)
  /\ UNCHANGED <<proc, _policy_cache, _cache_timestamp, _decision_stats,
                 db_service, initialized, webhook_urls, store, now, ticks,
                 started, alerts, verdicts, created,
                 store_version, index_version, overlaps, last_refresh, finished>>

\* The callers as a change of the endpoint lists leaves them: a delivery
\* loop that is under way iterates the list object that was changed.
UnderDelivery(urls) ==
  [c \in Callers |->
     IF proc[c].pc \in {"post", "backoff"} /\ urls # webhook_urls
     THEN [proc[c] EXCEPT !.urls_changed = TRUE]
     ELSE proc[c]]

\* The lists are read when an alert starts and when its loop moves to the
\* next endpoint, so registrations interleave there.  The endpoints of the
\* categories no modelled delivery reads change before the engine is
\* initialised only.
RegistrationPoint(notification_type) ==
  /\ closing.pc = "open"
  /\ \A c \in Callers : proc[c].pc \in {"idle", "post", "backoff"}
  /\ notification_type # "BLOCK_ALERT" => ~initialized

\* NotificationService.register_webhook
register_webhook(notification_type, url) ==
  /\ RegistrationPoint(notification_type)
  /\ webhook_urls' =
       IF ~InSeq(url, webhook_urls[notification_type])
       THEN [webhook_urls EXCEPT ![notification_type] = Append(@, url)]
       ELSE webhook_urls
  /\ proc' = UnderDelivery(webhook_urls')
  /\ UNCHANGED <<_policy_cache, _cache_timestamp, _decision_stats,
                 db_service, initialized, store, now, ticks,
                 started, alerts, verdicts, _pending_tasks, created,
                 closing, store_version, index_version, overlaps, last_refresh, finished>>

\* NotificationService.unregister_webhook
unregister_webhook(notification_type, url) ==
  /\ RegistrationPoint(notification_type)
  /\ webhook_urls' =
       IF InSeq(url, webhook_urls[notification_type])
       THEN [webhook_urls EXCEPT ![notification_type] =
               RemoveFirst(@, url)]
       ELSE webhook_urls
  /\ proc' = UnderDelivery(webhook_urls')
  /\ UNCHANGED <<_policy_cache, _cache_timestamp, _decision_stats,
                 db_service, initialized, store, now, ticks,
                 started, alerts, verdicts, _pending_tasks, created,
                 closing, store_version, index_version, overlaps, last_refresh, finished>>

\* The clock advances of the model, in clock units: less than the TTL,
\* more than the TTL, a fraction of a second over the TTL, one day.
TickSteps ==
  {TickSeconds * TicksPerSecond, 2 * TickSeconds * TicksPerSecond,
   _cache_ttl * TicksPerSecond + 1, DaySeconds * TicksPerSecond}

\* The clock advance that completes a day since the latest clock advance
\* of TickSeconds or a multiple of it.
RestOfDay == (DaySeconds - TickSeconds) * TicksPerSecond

\* Time passes.  The clock is read by the freshness check and by the refresh
\* only, and only its distance to the cache timestamp matters, so it
\* advances between requests once a timestamp exists: the k-th advance
\* falls between the k-th request and the next.
Tick(d) ==
  /\ closing.pc = "open"
  /\ overlaps = 0
  /\ \A c \in Callers : proc[c].pc = "idle"
  /\ _cache_timestamp.set
  /\ \/ ticks < MaxTicks /\ ticks = started - 1 /\ d \in TickSteps
     \/ ticks = MaxTicks /\ started = MaxActions /\ RetryDue /\ d = RestOfDay
  /\ ticks' = ticks + 1
  /\ now' = now + d
  /\ UNCHANGED <<proc, _policy_cache, _cache_timestamp, _decision_stats,
                 db_service, initialized, webhook_urls, store,
                 started, alerts, verdicts,
                 _pending_tasks, created, closing, store_version, index_version, overlaps, last_refresh, finished>>

Next ==
  \/ Initialize
  \/ WireStore
  \/ \E p \in Procs, t \in Tools : ProcessAction(p, t)
  \/ \E p \in Procs, ok \in BOOLEAN : LoadReturn(p, ok)
  \/ \E policies \in StoreContents : StoreChange(policies)
  \/ \E p \in Procs, o \in OracleOutcomes : LlmReturn(p, o)
  \/ \E p \in Procs : SleepReturn(p)
  \/ \E c \in Callers, r \in {"ok", "timeout", "error"} : PostReturn(c, r)
  \/ \E c \in Callers : BackoffReturn(c)
  \/ \E p \in Procs, ok \in BOOLEAN : LogReturn(p, ok)
  \/ \E c \in Callers : ReturnToCaller(c)
  \/ SendImmediateAlert(DefaultPayloadType)
  \/ \E d \in DecisionEnum : send_alert(d)
  \/ send_system_alert
  \/ \E task \in _pending_tasks : TaskEnds(task)
  \/ \E task \in _pending_tasks : TaskDone(task)
  \/ close
  \/ \E timed_out \in BOOLEAN : DrainReturn(timed_out)
  \/ AcloseReturn
  \/ \E n \in RegTypes, u \in Urls : register_webhook(n, u)
  \/ \E n \in RegTypes, u \in Urls : unregister_webhook(n, u)
  \/ \E d \in TickSteps \cup {RestOfDay} : Tick(d)

Spec == Init /\ [][Next]_vars

\* The steps the event loop and the bounded waits of the code guarantee:
\* the store calls return or raise, asyncio.sleep ends, a POST ends at its
\* 5 s timeout at the latest, the drain of close() ends at its 5 s
\* deadline at the latest, a finished coroutine hands over its result, and
\* the done callbacks of a completed task run.
\* Nothing in the code bounds the await of llm_provider.invoke, so the
\* oracle's reply is not among them.
Scheduled ==
  \/ \E p \in Procs, ok \in BOOLEAN : LoadReturn(p, ok)
  \/ \E p \in Procs : SleepReturn(p)
  \/ \E c \in Callers, r \in {"ok", "timeout", "error"} : PostReturn(c, r)
  \/ \E c \in Callers : BackoffReturn(c)
  \/ \E p \in Procs, ok \in BOOLEAN : LogReturn(p, ok)
  \/ \E c \in Callers : ReturnToCaller(c)
  \/ \E timed_out \in BOOLEAN : DrainReturn(timed_out)
  \/ AcloseReturn
  \/ \E task \in _pending_tasks : TaskDone(task)

LiveSpec == Spec /\ WF_vars(Scheduled)

\* ------------------------------------------------------------------------
\* Properties
\* ------------------------------------------------------------------------
\* process_action has returned a verdict to its caller.
Returned(p) == proc[p].pc = "done"

\* process_action has ended, by a return or by an exception.
Ended(p) == proc[p].pc \in {"done", "raised"}

Verdict(p) == proc[p].decision

IsBlockHigh(d) == d.decision = "BLOCK" /\ d.severity = "HIGH"

\* A fault on the decision path was not recovered: an exception reached the
\* except clause of process_action, or the reply could not be parsed or
\* validated.
Faulted(p) == proc[p].fault # NoExc \/ proc[p].path = "safe_block"

\* C1: fail-closed. Whenever a fault on the decision path is not recovered,
\* process_action returns a verdict, and that verdict is BLOCK with severity
\* HIGH and a rationale describing the fault.
C1_FailClosed ==
  \A p \in Procs :
    Ended(p) /\ Faulted(p) =>
      /\ Returned(p)
      /\ IsBlockHigh(Verdict(p))
      /\ Verdict(p).rationale.fault # "none"

\* C2: process_action never raises to its caller, and the verdict it returns
\* is structurally valid (a known decision, a rationale within the length
\* limits, a severity when the decision is BLOCK), for every fault message.
C2_AlwaysReturnsValidVerdict ==
  \A p \in Procs :
    /\ proc[p].pc # "raised"
    /\ Returned(p) =>
         /\ Verdict(p).decision \in DecisionEnum
         /\ Verdict(p).rationale.len >= RationaleMinLen
         /\ Verdict(p).rationale.len <= RationaleMaxLen
         /\ Verdict(p).severity \in SeverityEnum \cup {NoSeverity}
         /\ Verdict(p).decision = "BLOCK" => Verdict(p).severity # NoSeverity

\* C3: every verdict returned by process_action with decision BLOCK has a
\* severity, also when the oracle replied BLOCK without one.
C3_BlockHasSeverity ==
  \A p \in Procs :
    Returned(p) /\ Verdict(p).decision = "BLOCK" =>
      Verdict(p).severity \in SeverityEnum

\* The oracle replied BLOCK with the severity key absent, or null, and the
\* verdict was returned.
C3_Witness ==
  \E p \in Procs :
    /\ Returned(p)
    /\ proc[p].response \in
         {Obj(DBlockNoSeverity),
          <<Tok("TXT"), Tok("OUT")>> \o Obj(DBlockNullSeverity)}
    /\ Verdict(p).decision = "BLOCK"
    /\ Verdict(p).severity = "HIGH"

\* C4: when process_action returns a verdict with decision BLOCK, whichever
\* path made it, the synchronous notification was started and has finished.
C4_BlockNotifiedBeforeReturn ==
  \A p \in Procs :
    Returned(p) /\ Verdict(p).decision = "BLOCK" =>
      /\ proc[p].notif = "finished"
      /\ proc[p].notif_result # "none"

\* A reply that failed to parse or validate was answered BLOCK, after its
\* notification finished.
C4_Witness ==
  \E p \in Procs :
    /\ Returned(p)
    /\ proc[p].path = "safe_block"
    /\ Verdict(p).decision = "BLOCK"
    /\ proc[p].notif = "finished"

\* The URLs registered for the BLOCK category.
BlockUrls ==
  {webhook_urls["BLOCK_ALERT"][i] :
     i \in 1..Len(webhook_urls["BLOCK_ALERT"])}

\* C5: for a returned BLOCK verdict, when no endpoint refused a request,
\* exactly one POST was made to each URL registered for the BLOCK category.
C5_OnePostPerBlockEndpoint ==
  \A p \in Procs :
    Returned(p) /\ Verdict(p).decision = "BLOCK" /\ ~proc[p].post_failed =>
      \A u \in BlockUrls : proc[p].posts[u] = 1

\* No pattern of the cache matches the tool.
NoPatternMatches(cache, target_tool) ==
  \A i \in 1..Len(cache) : ~PatternMatches(cache[i].pattern, target_tool)

NoStrategyYieldsJson(content) ==
  \A n \in 1..NumStrategies : ~JsonLoads(Strategy(n, content)).ok

\* C7: a non-empty reply from which no strategy yields parseable JSON is
\* answered BLOCK, severity HIGH, applied_rules = ["PARSE-ERROR"].
C7_UnparseableTaggedParseError ==
  \A p \in Procs :
    /\ Returned(p)
    /\ proc[p].response # <<>>
    /\ NoStrategyYieldsJson(proc[p].response)
    => /\ IsBlockHigh(Verdict(p))
       /\ Verdict(p).applied_rules = <<"PARSE-ERROR">>

\* Replies that parse as JSON but lack decision or rationale, or carry an
\* unrecognized decision or severity.
InvalidReplies ==
  {Obj(DNoRationale), Obj(DNoDecision), Obj(DBadDecision), Obj(DBadSeverity)}

\* C8: a reply that parses as JSON but lacks decision or rationale, or has
\* an unrecognized decision or severity, is answered BLOCK, severity HIGH,
\* tagged VALIDATION-ERROR, a tag that differs from the one of a reply
\* without JSON.
C8_InvalidTaggedValidationError ==
  \A p \in Procs :
    Returned(p) =>
      /\ proc[p].response \in InvalidReplies =>
           /\ IsBlockHigh(Verdict(p))
           /\ Verdict(p).applied_rules = <<"VALIDATION-ERROR">>
      /\ proc[p].response \in ProseReplies =>
           Verdict(p).applied_rules # <<"VALIDATION-ERROR">>

\* The delays the retry policy prescribes, in order.
PrescribedDelays == <<1, 2>>

RECURSIVE FailedRounds(_)
\* The events of k failed attempts, each followed by its delay.
FailedRounds(k) ==
  IF k = 0 THEN <<>>
  ELSE FailedRounds(k - 1)
       \o <<Ev("call", 0), Ev("fail", 0), Ev("delay", PrescribedDelays[k])>>

\* C9: when the oracle fails on k attempts and then succeeds, k in {0,1,2},
\* exactly k delays occur, 1s then 2s, each between a failed attempt and
\* the next attempt, and the reply used is that of attempt k+1.
C9_RetrySequence ==
  \A p \in Procs :
    proc[p].response_attempt > 0 =>
      /\ proc[p].response_attempt \in 1..3
      /\ proc[p].calls = proc[p].response_attempt
      /\ proc[p].delays =
           SubSeq(PrescribedDelays, 1, proc[p].response_attempt - 1)
      /\ proc[p].events =
           FailedRounds(proc[p].response_attempt - 1)
           \o <<Ev("call", 0), Ev("ok", 0)>>

\* Two failures, then the third attempt's reply was used for the verdict.
C9_Witness ==
  \E p \in Procs :
    /\ Returned(p)
    /\ proc[p].response_attempt = 3
    /\ proc[p].calls = 3
    /\ proc[p].delays = <<1, 2>>
    /\ proc[p].path = "finalize"

\* The number of failed oracle attempts of the action.
Failures(p) ==
  Cardinality({i \in 1..Len(proc[p].events) : proc[p].events[i].e = "fail"})

\* C10: at most three oracle calls are made per action; after three failed
\* attempts no further call and no further delay is made and the action's
\* verdict is BLOCK with severity HIGH.
C10_ThreeFailuresBlock ==
  \A p \in Procs :
    /\ proc[p].calls <= 3
    /\ Failures(p) = 3 =>
         /\ proc[p].calls = 3
         /\ proc[p].events =
              FailedRounds(2) \o <<Ev("call", 0), Ev("fail", 0)>>
         /\ Ended(p) => Returned(p) /\ IsBlockHigh(Verdict(p))

\* C11: an action processed more than the TTL (60 s) after the last
\* successful refresh triggers exactly one refresh before its patterns are
\* matched, whatever the elapsed time is, and an action processed sooner
\* triggers none.
C11_RefreshIffOlderThanTtl ==
  \A p \in Procs :
    proc[p].pc # "idle" /\ proc[p].age >= 0 =>
      proc[p].refreshes =
        (IF proc[p].age > _cache_ttl * TicksPerSecond THEN 1 ELSE 0)

\* The entries of the index, over all its pattern keys.
IndexEntries(cache) ==
  UNION {{<<i, j>> : j \in 1..Len(cache[i].entries)} : i \in 1..Len(cache)}

\* No pattern key and no entry occurs twice in the index.
NoDuplicates(cache) ==
  /\ \A i, k \in 1..Len(cache) : cache[i].pattern = cache[k].pattern => i = k
  /\ \A a, b \in IndexEntries(cache) :
       cache[a[1]].entries[a[2]] = cache[b[1]].entries[b[2]] => a = b

\* The action awaited a refresh for which the store answered.
Refreshed(p) ==
  proc[p].pc \notin {"idle", "load"} /\ proc[p].refresh \in {"ok", "aborted"}

\* C12: a refresh that follows an earlier refresh of the unchanged store
\* leaves the index with the same pattern keys and the same entries per
\* key, and no refresh duplicates an entry.
C12_RefreshIdempotent ==
  \A p \in Procs :
    Refreshed(p) =>
      /\ NoDuplicates(proc[p].index_used)
      /\ proc[p].age >= 0 => proc[p].index_used = proc[p].index_before

\* A second refresh rebuilt an index of several pattern keys.
C12_Witness ==
  \E p \in Procs :
    /\ Refreshed(p)
    /\ proc[p].age >= 0
    /\ proc[p].refresh = "ok"
    /\ Len(proc[p].index_before) >= 2
    /\ proc[p].index_used = proc[p].index_before

\* C13: when the store read fails wholesale during a refresh, the index and
\* its timestamp are what they were before the refresh, the failure is not
\* raised into process_action, and the action is resolved against the
\* previous index.
C13_FailedRefreshKeepsIndex ==
  \A p \in Procs :
    proc[p].pc \notin {"idle", "load"} /\ proc[p].refresh = "failed" =>
      /\ proc[p].index_used = proc[p].index_before
      /\ proc[p].pc = "raised" => proc[p].calls = max_retries
      /\ proc[p].calls > 0 <=>
           \E i \in 1..Len(proc[p].index_before) :
             PatternMatches(proc[p].index_before[i].pattern,
                          proc[p].action.target_tool)

\* A refresh of a populated index failed and the action got its verdict
\* from the oracle, under the rules of the previous index.
C13_Witness ==
  \E p \in Procs :
    /\ Returned(p)
    /\ proc[p].refresh = "failed"
    /\ proc[p].index_before # <<>>
    /\ proc[p].index_used = proc[p].index_before
    /\ proc[p].calls > 0
    /\ proc[p].path = "finalize"

\* C14: the index an action resolves against after a refresh is the
\* complete index from before the refresh or the complete index the refresh
\* built, also when the refresh aborts partway.
C14_AtomicIndexReplacement ==
  \A p \in Procs :
    proc[p].pc \notin {"idle", "load"} /\ proc[p].refresh # "none" =>
      \/ proc[p].index_used = proc[p].index_before
      \/ proc[p].refresh = "ok"

\* The object json.loads gives for the text extracted from the reply.
OracleDict(content) == JsonLoads(_extract_json_from_response(content)).v

OracleSeverity(d) ==
  IF d.severity \in {Absent, Null} THEN NoSeverity ELSE Upper(d.severity)

\* The reply holds a JSON object with a recognized decision, a rationale of
\* at least min_len characters and a valid severity (or none, unless the
\* decision is BLOCK).
WellFormed(content, min_len) ==
  /\ content # <<>>
  /\ JsonLoads(_extract_json_from_response(content)).ok
  /\ OracleDict(content).k = "dict"
  /\ Upper(OracleDict(content).decision) \in DecisionEnum
  /\ OracleDict(content).rationale.k = "str"
  /\ OracleDict(content).rationale.len >= min_len
  /\ OracleSeverity(OracleDict(content)) \in
       (IF Upper(OracleDict(content).decision) = "BLOCK"
        THEN SeverityEnum ELSE SeverityEnum \cup {NoSeverity})

\* C15: for a well-formed reply, with a rationale of any length from one
\* character upward, the verdict's decision and severity are the oracle's,
\* compared case-insensitively.
C15_WellFormedReplyDecides ==
  \A p \in Procs :
    Returned(p) /\ WellFormed(proc[p].response, 1) =>
      /\ Verdict(p).decision = Upper(OracleDict(proc[p].response).decision)
      /\ Verdict(p).severity = OracleSeverity(OracleDict(proc[p].response))

\* C16: on every terminal path, process_action has submitted the verdict it
\* returns to the audit sink exactly once, as one log_audit request with
\* that verdict's decision and applied_rules, whether or not the write
\* succeeded.
C16_AuditedExactlyOnce ==
  \A p \in Procs :
    Returned(p) =>
      /\ proc[p].audits = 1
      /\ proc[p].audit_requests = <<AuditRecord(Verdict(p))>>

\* C17: once every process_action call has returned, the counters equal
\* the numbers of verdicts returned: total the number of verdicts, and
\* allow, block and flag the numbers of verdicts with each decision, the
\* blocks of the error paths included.
C17_StatsCountVerdicts ==
  (\A p \in Procs : proc[p].pc = "idle") => _decision_stats = verdicts

\* The notification of a verdict was attempted and was not delivered: the
\* dispatcher raised, or a POST failed or timed out on every attempt.
NotDelivered(p) ==
  \/ proc[p].notif_result = "raised"
  \/ proc[p].notif_result = "completed" /\ proc[p].post_failed

\* C18: when the delivery of a BLOCK notification fails, times out or
\* raises, process_action still returns the verdict the notification was
\* sent for, and the audit write and the statistics update for that
\* verdict have taken place.
C18_FailedNotificationChangesNothing ==
  \A p \in Procs :
    Returned(p) /\ NotDelivered(p) =>
      /\ Verdict(p).decision = "BLOCK"
      /\ proc[p].audits = 1
      /\ proc[p].counted

\* C19: an oracle call does not stall the pipeline: whatever the oracle
\* does, also when it never responds, a pipeline that awaits the oracle
\* reaches a terminal state and returns.
C19_OracleCallEnds ==
  \A p \in Procs : (proc[p].pc = "llm") ~> Ended(p)

\* C20: for every verdict with decision FLAG that process_action returns,
\* a background notification task of the FLAG category has been created
\* for that action and added to the pending-task set (it may be done by
\* now, so it is looked for among the tasks ever created).
C20_FlagTaskCreated ==
  \A p \in Procs :
    Returned(p) /\ Verdict(p).decision = "FLAG" =>
      \E i \in 1..Len(created) :
        /\ created[i].type = "FLAG_ALERT"
        /\ created[i].action_id = Verdict(p).action_id

\* C21: NotificationService.close() returns also when pending tasks never
\* complete: once called it ends, having waited for the drain deadline at
\* most, and when it has returned the pending-task set is empty.
C21_CloseDrainsAndReturns ==
  /\ [](closing.pc = "closed" => _pending_tasks = {})
  /\ (closing.pc \in {"drain", "aclose"}) ~> (closing.pc = "closed")

\* close() returned after its drain ended at the deadline with tasks still
\* pending.
C21_Witness ==
  /\ closing.pc = "closed"
  /\ closing.timed_out
  /\ closing.abandoned # {}

\* The ids of the rules resolved for the action of p.
ResolvedIds(p) ==
  {proc[p].relevant_rules[i].rule.rule_id :
     i \in 1..Len(proc[p].relevant_rules)}

SeqSet(sq) == {sq[i] : i \in 1..Len(sq)}

\* The verdict of p was built from a reply that parsed and validated.
Finalized(p) == Returned(p) /\ proc[p].path = "finalize"

\* C22: every id in the applied_rules of a verdict built from a parsed and
\* validated reply is the rule_id of a rule resolved for the action,
\* whatever ids the oracle listed.
C22_AppliedRulesAreResolved ==
  \A p \in Procs :
    Finalized(p) => SeqSet(Verdict(p).applied_rules) \subseteq ResolvedIds(p)

\* The oracle listed an id no resolved rule has, and the verdict was built
\* from its reply.
C22_Witness ==
  \E p \in Procs :
    /\ Finalized(p)
    /\ OracleDict(proc[p].response).applied_rules.k = "list"
    /\ ~(SeqSet(MapUpper(OracleDict(proc[p].response).applied_rules.ids))
           \subseteq ResolvedIds(p))

\* C23: every verdict returned has a rationale of at most 1000
\* characters; a longer oracle rationale is cut to its first 1000
\* characters and the oracle's decision is kept; and a fault, whatever the
\* length of its message, still ends in a returned verdict whose rationale
\* is bounded.
C23_RationaleBounded ==
  \A p \in Procs :
    /\ Returned(p) => Verdict(p).rationale.len <= RationaleMaxLen
    /\ /\ Ended(p)
       /\ WellFormed(proc[p].response, RationaleMinLen)
       /\ OracleDict(proc[p].response).rationale.len > RationaleMaxLen
       => /\ Returned(p)
          /\ Verdict(p).decision = Upper(OracleDict(proc[p].response).decision)
          /\ Verdict(p).rationale.len = RationaleMaxLen
    /\ Ended(p) /\ proc[p].fault # NoExc => Returned(p)

\* The step of process_action a pipeline is suspended in or has reached:
\* 1 the freshness check, 3 the oracle call with its retries, 5 the
\* synchronous notification, 6 the audit write, 8 the return.  Resolution
\* (2), parsing and reconciliation (4) and the statistics update (7) have
\* no await and lie between these.
StepAt(l) ==
  IF l.pc = "idle" THEN 0
  ELSE IF l.pc = "load" THEN 1
  ELSE IF l.pc \in {"llm", "sleep"} THEN 3
  ELSE IF l.pc \in {"post", "backoff"} THEN 5
  ELSE IF l.pc = "log" THEN 6
  ELSE 8

\* What a pipeline suspended at a step has done and has not done yet.
InStepOrder(l) ==
  /\ l.refreshes <= 1
  /\ l.audits <= 1
  /\ StepAt(l) = 1 =>
       /\ l.refresh = "none" /\ l.relevant_rules = <<>> /\ l.calls = 0
       /\ l.decision = NoDecision /\ l.notif = "none" /\ l.audits = 0
  /\ StepAt(l) >= 3 => (l.refreshes = 1 => l.refresh # "none")
  /\ StepAt(l) = 3 =>
       /\ l.relevant_rules # <<>> /\ l.calls >= 1
       /\ l.decision = NoDecision /\ l.notif = "none" /\ l.audits = 0
  /\ StepAt(l) = 5 =>
       /\ l.decision.decision = "BLOCK" /\ l.notif = "started"
       /\ l.audits = 0
  /\ StepAt(l) = 6 =>
       /\ l.decision # NoDecision /\ l.notif # "started"
       /\ l.audits = 1 /\ l.audit_result = "none"
  /\ l.notif # "none" => l.decision.decision = "BLOCK"
  /\ l.counted => /\ l.pc = "done"
                  /\ l.audits = 1 => l.audit_result # "none"
                  /\ l.notif # "started"

\* C24: within one action's pipeline the steps occur in the order
\* freshness check, resolution, oracle call, parse and reconciliation,
\* synchronous notification (only for BLOCK), audit write, statistics
\* update, return, each at most once and none before the previous one has
\* finished, however the pipelines of other actions interleave.
C24_StepsInOrder ==
  /\ [](\A p \in Procs : InStepOrder(proc[p]))
  /\ [][\A p \in Procs :
          proc[p].pc # "idle" /\ proc'[p].pc # "idle" =>
            /\ StepAt(proc'[p]) >= StepAt(proc[p])
            /\ proc'[p].action = proc[p].action
            /\ proc[p].notif = "finished" => proc'[p].notif = "finished"
            /\ proc'[p].refreshes >= proc[p].refreshes
            /\ proc'[p].audits >= proc[p].audits
            /\ proc[p].counted => proc'[p].counted]_vars

\* A request that overlapped another went through every step: refresh,
\* oracle call with a retry, BLOCK, the notification call, audit write,
\* statistics.
C24_Witness ==
  \E p \in Procs :
    /\ overlaps > 0
    /\ Returned(p)
    /\ proc[p].refreshes = 1
    /\ proc[p].calls >= 2
    /\ proc[p].path = "finalize"
    /\ Verdict(p).decision = "BLOCK"
    /\ proc[p].notif = "finished"
    /\ proc[p].audit_result = "ok"
    /\ proc[p].counted

\* The reply of p was rejected as a parse failure: nothing was extracted
\* from it, or json.loads refused what was extracted.
RejectedAsParseFailure(p) ==
  /\ Returned(p)
  /\ proc[p].path = "safe_block"
  /\ Verdict(p).rationale.fault \in {"no_json", "json_decode"}

\* C25: a reply is rejected as a parse failure only if no extraction
\* strategy yields parseable JSON from it: text from an earlier strategy
\* that is not parseable does not keep the later strategies from being
\* tried.
C25_RejectedOnlyIfNoStrategyParses ==
  \A p \in Procs :
    proc[p].response # <<>> /\ RejectedAsParseFailure(p)
      => NoStrategyYieldsJson(proc[p].response)

\* The ids the oracle supplied in applied_rules, upper-cased, that are ids
\* of rules resolved for the action of p.
SuppliedResolved(p) ==
  LET supplied == OracleDict(proc[p].response).applied_rules
  IN IF supplied.k = "list"
     THEN {Upper(id) : id \in SeqSet(supplied.ids)} \cap ResolvedIds(p)
     ELSE {}

\* C26: when the oracle supplies applied_rules and at least one supplied
\* id matches, ignoring letter case, the id of a rule resolved for the
\* action, the verdict's applied_rules is exactly the supplied ids that
\* match a resolved rule; the other supplied ids are dropped.
C26_SuppliedMatchingIdsKept ==
  \A p \in Procs :
    Finalized(p) =>
      LET kept == SuppliedResolved(p)
      IN kept # {} => SeqSet(Verdict(p).applied_rules) = kept

\* The oracle supplied, in lower case, the id of one of two resolved rules
\* and an id of no resolved rule.
C26_Witness ==
  \E p \in Procs :
    /\ Finalized(p)
    /\ proc[p].response = Obj(DAllowMixed)
    /\ ResolvedIds(p) = {"DP-001", "AC-003"}
    /\ Verdict(p).applied_rules = <<"DP-001">>

\* C27: when the oracle's decision is ALLOW and its applied_rules is
\* absent, empty or without an id of a resolved rule, the verdict's
\* applied_rules is the full set of the rule ids resolved for the action.
C27_AllowDefaultsToResolved ==
  \A p \in Procs :
    /\ Finalized(p)
    /\ Upper(OracleDict(proc[p].response).decision) = "ALLOW"
    /\ SuppliedResolved(p) = {}
    => SeqSet(Verdict(p).applied_rules) = ResolvedIds(p)

\* An ALLOW that listed only an unknown id was given both resolved rules.
C27_Witness ==
  \E p \in Procs :
    /\ Finalized(p)
    /\ proc[p].response = Obj(DAllowUnknown)
    /\ Verdict(p).decision = "ALLOW"
    /\ SeqSet(Verdict(p).applied_rules) = {"DP-001", "AC-003"}

\* The ids of the resolved rules whose id or description occurs in the
\* oracle's rationale.
InRationale(p) ==
  LET mentions == OracleDict(proc[p].response).rationale.mentions
      rules == proc[p].relevant_rules
  IN {rules[i].rule.rule_id :
        i \in {j \in 1..Len(rules) :
                 \/ Lower(rules[j].rule.rule_id) \in mentions
                 \/ Lower(rules[j].rule.description) \in mentions}}

\* C28: when the oracle's decision is BLOCK or FLAG and its applied_rules
\* is absent, empty or without an id of a resolved rule, the verdict's
\* applied_rules is the resolved rules whose id or description occurs in
\* the rationale, or all resolved rules when none occurs; it is never
\* empty.
C28_BlockFlagInfersFromRationale ==
  \A p \in Procs :
    /\ Finalized(p)
    /\ Upper(OracleDict(proc[p].response).decision) \in {"BLOCK", "FLAG"}
    /\ SuppliedResolved(p) = {}
    => /\ Verdict(p).applied_rules # <<>>
       /\ LET inferred == InRationale(p)
          IN SeqSet(Verdict(p).applied_rules) =
               IF inferred # {} THEN inferred ELSE ResolvedIds(p)

\* A BLOCK that listed only an unknown id and whose rationale holds the
\* description of one of two resolved rules was given that rule alone.
C28_Witness ==
  \E p \in Procs :
    /\ Finalized(p)
    /\ proc[p].response = Obj(DBlockUnknown)
    /\ ResolvedIds(p) = {"DP-001", "AC-003"}
    /\ Verdict(p).applied_rules = <<"DP-001">>

\* C29: when refreshes of several actions overlap while the store changes,
\* an index is never replaced by one built from an older read of the
\* store, so the index in place when all have completed is built from a
\* read at least as new as that of any index installed before; and the
\* index never holds an entry or a key twice.
C29_ConcurrentRefreshesSafe ==
  /\ [](NoDuplicates(_policy_cache))
  /\ [](index_version <= store_version)
  /\ [][index_version' >= index_version]_vars
  /\ [][\A p \in Procs :
          ~Refreshed(p) /\ Refreshed(p)' => index_version' = store_version]_vars

\* Two overlapping refreshes have both installed an index, the store
\* having changed between the two: the index in place is that of the
\* later one, built from the changed store.
C29_Witness ==
  \E p, q \in Procs :
    /\ p # q
    /\ proc[p].refresh = "ok" /\ Refreshed(p)
    /\ proc[q].refresh = "ok" /\ Refreshed(q)
    /\ proc[p].index_used # proc[q].index_used
    /\ proc[q].index_used = _policy_cache
    /\ store_version > 0
    /\ index_version = store_version

\* A record of the store's answer is well formed: a mapping whose rule
\* data make a valid rule.
WellFormedRecord(policy) == policy.is_dict /\ PolicyRuleValid(policy.rules)

\* The index that holds every well-formed active record of the answer.
IndexOfWellFormed(policies) ==
  LoadInto(<<>>, SelectSeq(policies,
                           LAMBDA r : WellFormedRecord(r) /\ r.is_active),
           1).cache

\* C30: a refresh over an answer of the store that mixes well-formed and
\* malformed records does not abort, and the index it leaves holds every
\* well-formed active record and nothing of the malformed ones, whatever
\* their shape.
C30_MalformedRecordsSkipped ==
  \A p \in Procs :
    Refreshed(p) =>
      /\ proc[p].refresh = "ok"
      /\ store_version = 0 => proc[p].index_used = IndexOfWellFormed(store)

\* The positions of the index p resolved against whose pattern matches
\* the tool of p: by the regular expression when the pattern compiles, by
\* containment in the tool's name when it does not.
MatchingKeys(p) ==
  {i \in 1..Len(proc[p].index_used) :
     IF proc[p].index_used[i].pattern = "[raw"
     THEN proc[p].action.target_tool = "DB_Query[raw]"
     ELSE RegexMatches(proc[p].index_used[i].pattern,
                       proc[p].action.target_tool)}

KeysNonEmpty(cache) == \A i \in 1..Len(cache) : cache[i].entries # <<>>

\* C32: in every reachable state, after any sequence of refreshes that
\* succeeded, failed or aborted and of resolutions, every pattern key of
\* the index maps to a non-empty list of entries.
C32_EveryKeyHasEntries ==
  /\ KeysNonEmpty(_policy_cache)
  /\ \A p \in Procs : KeysNonEmpty(proc[p].index_used)

\* An index of several keys that a later refresh, which failed, left in
\* place and against which an action was then resolved.
C32_Witness ==
  \E p \in Procs :
    /\ proc[p].pc \notin {"idle", "load"}
    /\ proc[p].refresh = "failed"
    /\ proc[p].index_used = _policy_cache
    /\ Len(_policy_cache) >= 2
    /\ proc[p].relevant_rules # <<>>

\* The endpoints of the category the delivery of c goes to.
DeliveryUrls(c) == webhook_urls[NotificationTypeByValue(proc[c].payload_type)]

\* Position of a URL in a list of URLs, 0 when it is not in it.
PositionIn(u, urls) ==
  IF InSeq(u, urls) THEN CHOOSE i \in 1..Len(urls) : urls[i] = u ELSE 0

StoreHasRuleFor(target_tool) ==
  /\ \A i \in 1..Len(store) : store[i].is_dict
  /\ \E i \in 1..Len(store) :
       /\ WellFormedRecord(store[i]) /\ store[i].is_active
       /\ PatternMatches(store[i].rules.target_tool_regex, target_tool)

\* C34: after initialize(), when the store answers whenever it is asked
\* and holds a valid active rule whose pattern matches the tool of the
\* first action, the index that action is resolved against is populated
\* and the action is sent to the oracle, not answered by the ALLOW given
\* when no rule applies.
C34_InitializeWiresStore ==
  \A p \in Procs :
    /\ proc[p].pc \notin {"idle", "load"}
    /\ proc[p].action.action_id = 1
    /\ store_version = 0
    /\ ~(db_service = "instance" /\ proc[p].refresh = "failed")
    /\ StoreHasRuleFor(proc[p].action.target_tool)
    => /\ proc[p].index_used # <<>>
       /\ proc[p].calls >= 1
       /\ proc[p].path # "allow_default"

\* The coroutine whose freshness check runs in this step.
Arrives(p) == started' = started + 1 /\ proc'[p] # proc[p]

\* The refresh of p ends in this step with the given results.
RefreshEnds(p, results) ==
  proc[p].refresh = "none" /\ proc'[p].refresh \in results

\* C35: a refresh that fails leaves the cache timestamp as it was; a
\* refresh that succeeds sets the timestamp to the current time together
\* with the rebuilt index; and the freshness check of every action that
\* arrives while the latest refresh has failed attempts a refresh.
C35_FailedRefreshIsRetried ==
  [][\A p \in Procs :
       /\ RefreshEnds(p, {"failed", "aborted"})
          => _cache_timestamp' = _cache_timestamp
       /\ RefreshEnds(p, {"ok"})
          => /\ _cache_timestamp' = [set |-> TRUE, t |-> now]
             /\ proc'[p].index_used = _policy_cache'
       /\ Arrives(p) /\ last_refresh \in {"failed", "aborted"}
          => proc'[p].refreshes = 1]_vars

\* No refresh has populated the index since start-up: there was no
\* timestamp when the action of p arrived, its own refresh failed, and the
\* index was empty then.
NeverPopulated(p) ==
  /\ proc[p].age = -1
  /\ proc[p].refresh = "failed"
  /\ proc[p].index_before = <<>>

\* C36: while every refresh since start-up has failed, process_action
\* resolves each action against the empty index, never calls the oracle and
\* answers ALLOW with empty applied_rules.
C36_OutageAtStartupAllows ==
  \A p \in Procs :
    proc[p].pc \notin {"idle", "load"} /\ NeverPopulated(p) =>
      /\ proc[p].index_used = <<>>
      /\ proc[p].calls = 0
      /\ proc[p].path = "allow_default"
      /\ Verdict(p).decision = "ALLOW"
      /\ Verdict(p).applied_rules = <<>>
      /\ proc[p].pc # "raised"

\* The store holds a rule for the tool, the refreshes of two actions in a
\* row failed, and the second action was answered ALLOW without the oracle.
C36_Witness ==
  \E p \in Procs :
    /\ Returned(p)
    /\ NeverPopulated(p)
    /\ proc[p].action.action_id = MaxActions
    /\ StoreHasRuleFor(proc[p].action.target_tool)
    /\ Verdict(p).decision = "ALLOW"
    /\ proc[p].calls = 0

\* The total equals the sum of the per-verdict counters.
StatsBalanced(stats) == stats.total = stats.allow + stats.block + stats.flag

\* No counter of the statistics decreases in this step.
StatsGrow ==
  /\ _decision_stats'.total >= _decision_stats.total
  /\ _decision_stats'.allow >= _decision_stats.allow
  /\ _decision_stats'.block >= _decision_stats.block
  /\ _decision_stats'.flag >= _decision_stats.flag

\* C37: in every reachable state, also while actions overlap, the
\* statistics satisfy total = allow + block + flag, and no step decreases a
\* counter.
C37_StatsBalancedAndMonotone ==
  /\ StatsBalanced(_decision_stats)
  /\ [][StatsBalanced(_decision_stats') /\ StatsGrow]_vars

\* Two overlapping actions were both counted, one as ALLOW and one as
\* BLOCK.
C37_Witness ==
  /\ overlaps > 0
  /\ \A p \in Procs : proc[p].counted
  /\ _decision_stats.total = 2
  /\ _decision_stats.allow = 1
  /\ _decision_stats.block = 1

\* The tasks created so far.
CreatedTasks == {created[i] : i \in 1..Len(created)}

\* The task with this id has completed and is still in the pending set.
AwaitsDiscard(id) == \E t \in _pending_tasks \cap finished : t.id = id

\* C38: every task created by send_alert or send_system_alert is in the
\* pending set from its creation until it completes; the set holds created
\* tasks only; and a task that has completed is eventually removed from
\* the set, so finished tasks do not accumulate.
C38_PendingTasksTracked ==
  /\ [](/\ CreatedTasks \ finished \subseteq _pending_tasks
        /\ _pending_tasks \subseteq CreatedTasks)
  /\ \A id \in 1..MaxAlerts :
       AwaitsDiscard(id) ~> ~(\E t \in _pending_tasks : t.id = id)

\* A task of send_system_alert has completed while the service is open
\* and its done callback has not run yet.
C38_Witness ==
  /\ closing.pc = "open"
  /\ \E t \in _pending_tasks \cap finished : t.type = "SYSTEM_ALERT"

\* How often a URL occurs in a list.
Occurrences(u, urls) == Cardinality({i \in 1..Len(urls) : urls[i] = u})

\* The list after is the list before with a URL it did not hold appended.
Registers(before, after) ==
  \E u \in Urls : Occurrences(u, before) = 0 /\ after = Append(before, u)

\* The list after is the list before without a URL it held.
Unregisters(before, after) ==
  \E u \in Urls :
    /\ Occurrences(u, before) = 1 /\ Occurrences(u, after) = 0
    /\ after = SelectSeq(before, LAMBDA v : v # u)

\* C39: every category's list holds a URL at most once; a step changes the
\* list of one category at most, by appending a URL the list did not hold
\* or by removing a URL it held, so that registering a registered URL and
\* unregistering an unregistered one change nothing.
C39_RegistrationIdempotent ==
  /\ [](\A n \in NotificationTypeNames, u \in Urls :
          Occurrences(u, webhook_urls[n]) <= 1)
  /\ [][\A n \in NotificationTypeNames :
          webhook_urls'[n] # webhook_urls[n] =>
            /\ \/ Registers(webhook_urls[n], webhook_urls'[n])
               \/ Unregisters(webhook_urls[n], webhook_urls'[n])
            /\ \A m \in NotificationTypeNames \ {n} :
                 webhook_urls'[m] = webhook_urls[m]]_vars

\* Endpoints are registered in two categories, two of them in one.
C39_Witness ==
  /\ webhook_urls["BLOCK_ALERT"] = <<"u2", "u1">>
  /\ webhook_urls["FLAG_ALERT"] = <<"u1">>

\* C40: in the synchronous delivery to one endpoint the delay before
\* retry k is k seconds whatever the failure was, and there are at most
\* sync_max_retries - 1 delays, none after the final failed attempt.
C40_SyncBackoffLinear ==
  \A c \in Callers :
    /\ Len(proc[c].post_delays) <= sync_max_retries - 1
    /\ \A k \in 1..Len(proc[c].post_delays) : proc[c].post_delays[k] = k

====
